---------------------------- MODULE Spec2Model ----------------------------
(***************************************************************************)
(* A model of the Dzukou pricing optimiser (src/dzukou_pricer).            *)
(*                                                                         *)
(* Numbers.  The program computes with binary floating point; the model    *)
(* computes with exact decimal fixed point, so a float rounding artefact   *)
(* (0.1 + 0.2 > 0.3) is outside the model.                                 *)
(*   - money of the catalogue and of a listing (cogs, current price, shelf  *)
(*     price) and the price step are given in cents;                       *)
(*   - converted prices and the money inside optimise_price are kept in    *)
(*     micro-units (10^-6), which represents cogs * (1 + margin_floor),    *)
(*     the factors 0.8, 1.2 and 1.5 and the tolerance 1e-6 exactly;        *)
(*   - margin_floor is given in percent, elasticity in tenths (-12 is      *)
(*     -1.2), a component score in units of 10^-4 and a combined match     *)
(*     score in units of 10^-5;                                            *)
(*   - a demand baseline_units * (price / reference) ** elasticity is      *)
(*     irrational in general: it is kept as the term [b, p, r, e] of its   *)
(*     arguments and two profits are compared exactly, by comparing        *)
(*     integer powers with arbitrary-precision naturals.                   *)
(* An absent value (Python's None) is the empty sequence None and a        *)
(* present value v is <<v>>.                                               *)
(***************************************************************************)
EXTENDS Integers, Sequences, FiniteSets, TLC

VARIABLES
    call,       \* the function being executed, its arguments and its caller
    opt,        \* optimise_price: its position and its local variables
    ret,        \* what the call returned, once it has
    items,      \* cli.run: the normalised catalogue
    task,       \* cli.run: each process_item task's position
    matched,    \* cli.run: process_item's matched listings, while it runs
    results,    \* cli.run: the list process_item appends to
    run,        \* cli.run: the position of run itself
    written,    \* cli.run: the records handed to write_json, if any
    manager,    \* ScraperManager: its concurrency and its semaphore
    search,     \* ScraperManager: each _search_store task's position and outcome
    found,      \* ScraperManager: what search_all returned, per item, once it has
    limiter,    \* RateLimiter: its fields and its lock
    now,        \* RateLimiter: the reading of time.monotonic()
    acquiring   \* RateLimiter: each acquire() call's position and local variables

cliVars == <<items, task, matched, results, run, written>>
scrapeVars == <<manager, search, found, limiter, now, acquiring>>
vars == <<call, opt, ret, items, task, matched, results, run, written, manager, search, found, limiter, now, acquiring>>

None == <<>>
Some(v) == <<v>>
Val(o) == o[1]

\* Python truthiness of an Optional[float]: None and 0 are falsy.
Truthy(o) == o # None /\ Val(o) # 0

Abs(x) == IF x < 0 THEN -x ELSE x
Max(a, b) == IF a >= b THEN a ELSE b
Range(s) == {s[i] : i \in 1..Len(s)}

RECURSIVE GCD(_, _)
GCD(a, b) == IF b = 0 THEN a ELSE GCD(b, a % b)

Cent == 10^4            \* micro-units in one cent
Unit == 10^6            \* micro-units in one currency unit

(***************************************************************************)
(* Strings are sequences of one-character strings.                         *)
(***************************************************************************)
UpperCase ==
    <<"A", "B", "C", "D", "E", "F", "G", "H", "I", "J", "K", "L", "M",
      "N", "O", "P", "Q", "R", "S", "T", "U", "V", "W", "X", "Y", "Z">>
LowerCase ==
    <<"a", "b", "c", "d", "e", "f", "g", "h", "i", "j", "k", "l", "m",
      "n", "o", "p", "q", "r", "s", "t", "u", "v", "w", "x", "y", "z">>
Digits == <<"0", "1", "2", "3", "4", "5", "6", "7", "8", "9">>
Whitespace == {" ", "\t", "\n", "\r"}

\* str.lower() and str.upper(), one character
LowerChar(c) ==
    IF c \in Range(UpperCase)
    THEN LowerCase[CHOOSE i \in 1..Len(UpperCase) : UpperCase[i] = c]
    ELSE c
UpperChar(c) ==
    IF c \in Range(LowerCase)
    THEN UpperCase[CHOOSE i \in 1..Len(LowerCase) : LowerCase[i] = c]
    ELSE c

\* str.lower(), str.upper()
lower(s) == [i \in 1..Len(s) |-> LowerChar(s[i])]
upper(s) == [i \in 1..Len(s) |-> UpperChar(s[i])]

\* str.strip()
RECURSIVE lstrip(_)
lstrip(s) ==
    IF s # <<>> /\ Head(s) \in Whitespace THEN lstrip(Tail(s)) ELSE s
RECURSIVE rstrip(_)
rstrip(s) ==
    IF s # <<>> /\ s[Len(s)] \in Whitespace
    THEN rstrip(SubSeq(s, 1, Len(s) - 1))
    ELSE s
strip(s) == rstrip(lstrip(s))

\* the truth value of an optional string: neither None nor empty
TruthyStr(o) == o # None /\ Val(o) # <<>>

IsDigit(c) == c \in Range(Digits)
DigitValue(c) == (CHOOSE i \in 1..Len(Digits) : Digits[i] = c) - 1

(***************************************************************************)
(* Arbitrary-precision naturals: little-endian sequences of limbs.         *)
(***************************************************************************)
BigBase == 10^4
BigOne == <<1>>

RECURSIVE BigMulCarry(_, _, _, _)
BigMulCarry(a, k, i, carry) ==
    IF i > Len(a)
    THEN IF carry = 0 THEN <<>>
         ELSE <<carry % BigBase>> \o BigMulCarry(a, k, i, carry \div BigBase)
    ELSE LET t == a[i] * k + carry
         IN  <<t % BigBase>> \o BigMulCarry(a, k, i + 1, t \div BigBase)

\* a * k for k >= 1
BigMulSmall(a, k) == BigMulCarry(a, k, 1, 0)

\* a * k^n (a is never empty: the test evaluates each product before the next)
RECURSIVE BigMulPow(_, _, _)
BigMulPow(a, k, n) ==
    IF Len(a) = 0 \/ n = 0 THEN a ELSE BigMulPow(BigMulSmall(a, k), k, n - 1)

RECURSIVE BigLessFrom(_, _, _)
BigLessFrom(a, b, i) ==
    IF i = 0 THEN FALSE
    ELSE IF a[i] # b[i] THEN a[i] < b[i]
    ELSE BigLessFrom(a, b, i - 1)

BigLess(a, b) ==
    IF Len(a) # Len(b) THEN Len(a) < Len(b) ELSE BigLessFrom(a, b, Len(a))

(***************************************************************************)
(* app/config.py                                                           *)
(***************************************************************************)
DEFAULT_MARGIN_FLOOR == 10
BASE_CURRENCY == <<"U", "S", "D">>
PSYCHOLOGICAL_ENDINGS == <<99, 95>>

(***************************************************************************)
(* app/optimize.py: round_to_ending                                        *)
(***************************************************************************)
\* sorted(xs, reverse=True)
RECURSIVE InsertDesc(_, _)
InsertDesc(x, s) ==
    IF s = <<>> THEN <<x>>
    ELSE IF x > Head(s) THEN <<x>> \o s
    ELSE <<Head(s)>> \o InsertDesc(x, Tail(s))

RECURSIVE SortedDesc(_)
SortedDesc(s) == IF s = <<>> THEN <<>> ELSE InsertDesc(Head(s), SortedDesc(Tail(s)))

\* round(x, 2) of a price in micro-units, in cents; an exact half goes to the
\* even cent.
RoundCents(p) ==
    LET q == p \div Cent
        r == p % Cent
    IN  IF 2 * r > Cent THEN q + 1
        ELSE IF 2 * r < Cent THEN q
        ELSE IF q % 2 = 0 THEN q ELSE q + 1

RECURSIVE FirstEnding(_, _, _)
FirstEnding(integer_part, price, endings) ==
    IF endings = <<>> THEN RoundCents(price)
    ELSE LET candidate == integer_part * Unit + Head(endings) * Cent
         IN  IF candidate <= price
             THEN RoundCents(candidate)
             ELSE FirstEnding(integer_part, price, Tail(endings))

\* price in micro-units, endings in cents; the result in cents.
round_to_ending(price, endings) ==
    LET integer_part == price \div Unit
    IN  FirstEnding(integer_part, price, SortedDesc(endings))


(***************************************************************************)
(* app/demand.py                                                           *)
(***************************************************************************)
\* lines 17-22: the priors, in tenths, by category
CATEGORY_ELASTICITY_PRIORS ==
    (<<"d", "e", "f", "a", "u", "l", "t">> :> -12)
        @@ (<<"c", "l", "o", "t", "h", "i", "n", "g">> :> -15)
        @@ (<<"h", "o", "m", "e">> :> -11)
        @@ (<<"a", "c", "c", "e", "s", "s", "o", "r", "i", "e", "s">> :> -13)

\* lines 26-33, were the category looked up as it is written
get_elasticity_CaseSensitive(item) ==
    IF TruthyStr(item.category)
           /\ Val(item.category) \in DOMAIN CATEGORY_ELASTICITY_PRIORS
    THEN CATEGORY_ELASTICITY_PRIORS[Val(item.category)]
    ELSE CATEGORY_ELASTICITY_PRIORS[<<"d", "e", "f", "a", "u", "l", "t">>]

\* lines 26-33
get_elasticity(item) ==
    IF TruthyStr(item.category)
           /\ lower(Val(item.category)) \in DOMAIN CATEGORY_ELASTICITY_PRIORS
    THEN CATEGORY_ELASTICITY_PRIORS[lower(Val(item.category))]
    ELSE CATEGORY_ELASTICITY_PRIORS[<<"d", "e", "f", "a", "u", "l", "t">>]

\* The value 0.0 of expected_units.
UZero == [b |-> 0, p |-> 0, r |-> 0, e |-> 0]

\* lines 53-54, were the ratio reference_price / price
expected_units_Inverted(baseline_units, price, reference_price, elasticity) ==
    IF price <= 0 \/ reference_price <= 0
    THEN UZero
    ELSE [b |-> baseline_units, p |-> reference_price, r |-> price, e |-> elasticity]

\* baseline_units * (price / reference_price) ** elasticity, as the term of its
\* arguments; prices in micro-units, elasticity in tenths.
expected_units(baseline_units, price, reference_price, elasticity) ==
    IF price <= 0 \/ reference_price <= 0
    THEN UZero
    ELSE [b |-> baseline_units, p |-> price, r |-> reference_price, e |-> elasticity]

UnitsIsZero(u) == u.b = 0

(***************************************************************************)
(* Profits: (price - cogs) * units, and -inf.  Two profits of one call     *)
(* (same baseline, reference price and elasticity) are compared exactly:   *)
(* |m1| * (p1/r)^(-n/d) < |m2| * (p2/r)^(-n/d) iff                         *)
(* |m1|^d * p2^n < |m2|^d * p1^n.                                          *)
(***************************************************************************)
NegInf == [m |-> 0, u |-> UZero, inf |-> TRUE]

ProfitOf(price, cogs, units) == [m |-> price - cogs, u |-> units, inf |-> FALSE]

ProfitIsZero(x) == ~x.inf /\ (x.m = 0 \/ UnitsIsZero(x.u))

ProfitSign(x) ==
    IF ProfitIsZero(x) THEN 0
    ELSE IF (x.m > 0) = (x.u.b > 0) THEN 1 ELSE -1

\* |x| < |y| for two non-zero profits of one call, at prices and costs of whole
\* cents (both sides of the comparison are scaled by one power of Cent)
MagLess(x, y) ==
    LET m1 == Abs(x.m) \div Cent
        m2 == Abs(y.m) \div Cent
        p1 == x.u.p \div Cent
        p2 == y.u.p \div Cent
        e  == x.u.e
        h  == GCD(Abs(e), 10)
        n  == Abs(e) \div h
        d  == 10 \div h
        lhs == BigMulPow(BigMulPow(BigOne, m1, d), IF e < 0 THEN p2 ELSE p1, n)
        rhs == BigMulPow(BigMulPow(BigOne, m2, d), IF e < 0 THEN p1 ELSE p2, n)
    IN  BigLess(lhs, rhs)

\* x > y
ProfitGreater(x, y) ==
    IF x.inf THEN FALSE
    ELSE IF y.inf THEN TRUE
    ELSE LET sx == ProfitSign(x)
             sy == ProfitSign(y)
         IN  IF sx # sy THEN sx > sy
             ELSE IF sx = 0 THEN FALSE
             ELSE IF sx = 1 THEN MagLess(y, x)
             ELSE MagLess(x, y)

(***************************************************************************)
(* app/optimize.py: optimise_price.  cogs, current_price and price_step in *)
(* cents, competitor_min_price in micro-units, margin_floor in percent,    *)
(* elasticity in tenths; every price it computes in micro-units.  The two  *)
(* loops run one iteration per step.                                       *)
(***************************************************************************)
\* the precondition, were a zero cogs let through
InvalidInput_NegativeOnly(cogs) == cogs < 0

\* line 55: the precondition
InvalidInput(cogs) == cogs <= 0

\* cogs * (1 + margin_floor)
MarginFloorPrice(cogs, margin_floor) == cogs * (100 + margin_floor) * 100

\* line 90 (and line 58): current_price and current_price > 0
HasCurrent(current_price) == Truthy(current_price) /\ Val(current_price) > 0

\* line 58
ReferencePrice(cogs, current_price, margin_floor) ==
    IF HasCurrent(current_price)
    THEN Val(current_price) * Cent
    ELSE MarginFloorPrice(cogs, margin_floor)

\* competitor_min_price or reference_price
CompetitorOr(competitor_min_price, reference_price) ==
    IF Truthy(competitor_min_price)
    THEN Val(competitor_min_price)
    ELSE reference_price

\* line 61
LowerBound(cogs, margin_floor, competitor_min_price, reference_price) ==
    Max(MarginFloorPrice(cogs, margin_floor),
        (CompetitorOr(competitor_min_price, reference_price) * 8) \div 10)

\* the upper bound, were lines 68-69 left out
UpperBound_NotWidened(competitor_min_price, reference_price, lower_bound) ==
    IF Truthy(competitor_min_price)
    THEN (Val(competitor_min_price) * 12) \div 10
    ELSE (reference_price * 15) \div 10

\* lines 63-69
UpperBound(competitor_min_price, reference_price, lower_bound) ==
    LET upper_bound == IF Truthy(competitor_min_price)
                       THEN (Val(competitor_min_price) * 12) \div 10
                       ELSE (reference_price * 15) \div 10
    IN  IF upper_bound < lower_bound
        THEN (lower_bound * 12) \div 10
        ELSE upper_bound

\* line 76: p <= upper_bound + 1e-6
InGrid(p, upper_bound) == p <= upper_bound + 1

Min(S) == CHOOSE x \in S : \A y \in S : x <= y

\* line 80: sorted(set(xs))
SortedSet(S) ==
    [i \in 1..Cardinality(S) |-> CHOOSE x \in S : Cardinality({y \in S : y < x}) = i - 1]

\* the test of line 84, were it profit >= best_profit
Better_OrEqual(profit, best_profit) == ~ProfitGreater(best_profit, profit)

\* line 84: whether a price's profit replaces the best so far
Better(profit, best_profit) == ProfitGreater(profit, best_profit)

\* a float division: ZeroDivisionError when the divisor is zero
PctChange(best, current, current_is_zero) ==
    IF current_is_zero
    THEN [error |-> "ZeroDivisionError"]
    ELSE [error |-> "", best |-> best, current |-> current]

\* line 93, were the division not guarded
ProfitUplift_Unguarded(best_profit, current_profit) ==
    Some(PctChange(best_profit, current_profit, ProfitIsZero(current_profit)))

\* line 93: ((best_profit - current_profit) / current_profit) * 100.0, or None
ProfitUplift(best_profit, current_profit) ==
    IF ~ProfitIsZero(current_profit)
    THEN Some(PctChange(best_profit, current_profit, ProfitIsZero(current_profit)))
    ELSE None

\* line 94: ((best_units - current_units) / current_units) * 100.0, or None
DemandUplift(best_units, current_units) ==
    IF ~UnitsIsZero(current_units)
    THEN Some(PctChange(best_units, current_units, UnitsIsZero(current_units)))
    ELSE None

\* line 93: the sign of ((best_profit - current_profit) / current_profit) *
\* 100.0, the sign of the difference times the sign of the divisor
ProfitUpliftSign(uplift) ==
    LET difference == IF ProfitGreater(uplift.best, uplift.current) THEN 1
                      ELSE IF ProfitGreater(uplift.current, uplift.best) THEN -1
                      ELSE 0
    IN  difference * ProfitSign(uplift.current)

\* an uplift whose division raised
DivisionFailed(uplift) == uplift # None /\ Val(uplift).error # ""

NoCall == [fn |-> "none"]

\* optimise_price is not running
OptIdle ==
    [pc |-> "idle", reference_price |-> 0, lower_bound |-> 0, upper_bound |-> 0,
     p |-> 0, grid |-> <<>>, prices_to_check |-> <<>>, k |-> 0,
     best_price |-> 0, best_units |-> UZero, best_profit |-> NegInf]

\* line 56: raise ValueError("COGS must be positive")
Raised == [raised |-> TRUE, error |-> "ValueError"]

\* a division by zero in lines 93-94 leaves optimise_price as an exception
RaisedZeroDivision == [raised |-> TRUE, error |-> "ZeroDivisionError"]

OptCall(by, cogs, elasticity, current_price, competitor_min_price, margin_floor, baseline_units, price_step) ==
    [fn |-> "optimise_price", by |-> by, cogs |-> cogs, elasticity |-> elasticity,
     current_price |-> current_price, competitor_min_price |-> competitor_min_price,
     margin_floor |-> margin_floor, baseline_units |-> baseline_units,
     price_step |-> price_step]

\* lines 55-75: the call c enters optimise_price; it raises, or reaches the
\* first test of the grid loop.  grid records the points before snapping.
OptEnter(c) ==
    /\ call' = c
    /\ IF InvalidInput(c.cogs)
       THEN /\ ret' = Some(Raised)
            /\ opt' = OptIdle
       ELSE LET reference_price ==
                    ReferencePrice(c.cogs, c.current_price, c.margin_floor)
                lower_bound ==
                    LowerBound(c.cogs, c.margin_floor, c.competitor_min_price,
                               reference_price)
                upper_bound ==
                    UpperBound(c.competitor_min_price, reference_price, lower_bound)
            IN  /\ ret' = None
                /\ opt' = [pc |-> "grid",
                           reference_price |-> reference_price,
                           lower_bound |-> lower_bound,
                           upper_bound |-> upper_bound,
                           p |-> lower_bound,
                           grid |-> <<>>,
                           prices_to_check |-> <<>>,
                           k |-> 0,
                           best_price |-> lower_bound,
                           best_units |-> UZero,
                           best_profit |-> NegInf]

\* the length up to which the list prices_to_check of line 77 is followed
MaxGridLen == 48

\* lines 76-78: one iteration of the grid loop
GridStep ==
    /\ opt.pc = "grid"
    /\ InGrid(opt.p, opt.upper_bound)
    /\ Len(opt.grid) < MaxGridLen
    /\ opt' = [opt EXCEPT
                 !.grid = Append(@, opt.p),
                 !.prices_to_check =
                     Append(@, round_to_ending(opt.p, PSYCHOLOGICAL_ENDINGS) * Cent),
                 !.p = @ + call.price_step * Cent]
    /\ UNCHANGED <<call, ret>>
    /\ UNCHANGED cliVars
    /\ UNCHANGED scrapeVars

\* lines 76 and 80: the loop ends; the prices are deduplicated and sorted
GridExit ==
    /\ opt.pc = "grid"
    /\ ~InGrid(opt.p, opt.upper_bound)
    /\ opt' = [opt EXCEPT
                 !.prices_to_check = SortedSet(Range(@)),
                 !.k = 1,
                 !.pc = "scan"]
    /\ UNCHANGED <<call, ret>>
    /\ UNCHANGED cliVars
    /\ UNCHANGED scrapeVars

\* lines 81-87: one iteration of the scan
ScanStep ==
    /\ opt.pc = "scan"
    /\ opt.k <= Len(opt.prices_to_check)
    /\ LET price  == opt.prices_to_check[opt.k]
           units  == expected_units(call.baseline_units, price,
                                    opt.reference_price, call.elasticity)
           profit == ProfitOf(price, call.cogs * Cent, units)
       IN  opt' = IF Better(profit, opt.best_profit)
                  THEN [opt EXCEPT !.best_profit = profit,
                                   !.best_price = price,
                                   !.best_units = units,
                                   !.k = @ + 1]
                  ELSE [opt EXCEPT !.k = @ + 1]
    /\ UNCHANGED <<call, ret>>
    /\ UNCHANGED cliVars
    /\ UNCHANGED scrapeVars

\* lines 88-98: the uplifts and the returned tuple
OptResult ==
    LET current == Val(call.current_price) * Cent
        current_units ==
            expected_units(call.baseline_units, current,
                           opt.reference_price, call.elasticity)
        current_profit == ProfitOf(current, call.cogs * Cent, current_units)
        profit_uplift_pct ==
            IF HasCurrent(call.current_price)
            THEN ProfitUplift(opt.best_profit, current_profit)
            ELSE None
        demand_uplift_pct ==
            IF HasCurrent(call.current_price)
            THEN DemandUplift(opt.best_units, current_units)
            ELSE None
    IN  IF DivisionFailed(profit_uplift_pct) \/ DivisionFailed(demand_uplift_pct)
        THEN RaisedZeroDivision
        ELSE [raised |-> FALSE,
              error |-> "",
              best_price |-> opt.best_price,
              best_units |-> opt.best_units,
              best_profit |-> opt.best_profit,
              profit_uplift_pct |-> profit_uplift_pct,
              demand_uplift_pct |-> demand_uplift_pct]

OptReturn ==
    /\ opt.pc = "scan"
    /\ opt.k > Len(opt.prices_to_check)
    /\ ret' = Some(OptResult)
    /\ opt' = [opt EXCEPT !.pc = "returned"]
    /\ UNCHANGED call
    /\ UNCHANGED cliVars
    /\ UNCHANGED scrapeVars

OptStep == GridStep \/ GridExit \/ ScanStep \/ OptReturn

(***************************************************************************)
(* app/ingest.py.  A size in base units is in thousandths; a conversion    *)
(* factor is in hundredths (2835 is 28.35).  A function that can raise     *)
(* returns a record: raised, the error, and the value when it did not.     *)
(***************************************************************************)
\* lines 17-19: the unit alternatives of SIZE_PATTERN, in their order
SIZE_UNITS ==
    <<<<"g">>,
      <<"k", "g">>,
      <<"m", "l">>,
      <<"l">>,
      <<"o", "z">>,
      <<"f", "l", " ", "o", "z">>,
      <<"l", "b">>,
      <<"p", "o", "u", "n", "d">>,
      <<"g", "m">>,
      <<"g", "r", "a", "m">>,
      <<"g", "r", "a", "m", "s">>,
      <<"l", "i", "t", "r", "e">>,
      <<"l", "i", "t", "e", "r">>>>

Returned(v) == [raised |-> FALSE, error |-> "", value |-> v]
RaisedValueError == [raised |-> TRUE, error |-> "ValueError", value |-> None]

\* s has the word w at place i
IsPrefixAt(w, s, i) ==
    i + Len(w) - 1 <= Len(s) /\ SubSeq(s, i, i + Len(w) - 1) = w

\* [0-9\.]
IsQtyChar(c) == IsDigit(c) \/ c = "."

\* the end of the run of [0-9\.] that starts at i
RECURSIVE QtyEnd(_, _)
QtyEnd(s, i) == IF i <= Len(s) /\ IsQtyChar(s[i]) THEN QtyEnd(s, i + 1) ELSE i

\* the end of the run of \s that starts at i
RECURSIVE SpaceEnd(_, _)
SpaceEnd(s, i) == IF i <= Len(s) /\ s[i] \in Whitespace THEN SpaceEnd(s, i + 1) ELSE i

\* the first alternative of the unit group that s has at place i, or None
FirstUnitAt(s, i) ==
    LET ks == {k \in 1..Len(SIZE_UNITS) : IsPrefixAt(SIZE_UNITS[k], s, i)}
    IN  IF ks = {} THEN None
        ELSE Some(SIZE_UNITS[CHOOSE k \in ks : \A m \in ks : k <= m])

\* line 37: SIZE_PATTERN.search(s): the leftmost match from place i on.  No
\* unit starts with a digit, a dot or a space, so a match takes the whole
\* run of [0-9\.] and the whole run of \s after it.
RECURSIVE SizeSearch(_, _)
SizeSearch(s, i) ==
    IF i > Len(s) THEN None
    ELSE LET unit == FirstUnitAt(s, SpaceEnd(s, QtyEnd(s, i)))
         IN  IF IsQtyChar(s[i]) /\ unit # None
             THEN Some([qty |-> SubSeq(s, i, QtyEnd(s, i) - 1), unit |-> Val(unit)])
             ELSE SizeSearch(s, i + 1)

\* the digits of q as one number, the dots skipped
RECURSIVE QtyMantissa(_, _, _)
QtyMantissa(q, i, v) ==
    IF i > Len(q) THEN v
    ELSE QtyMantissa(q, i + 1, IF q[i] = "." THEN v ELSE 10 * v + DigitValue(q[i]))

\* line 40: float(q) of a run of digits and dots, as mantissa / scale; it
\* raises ValueError unless q has a digit and at most one dot
QtyFloat(q) ==
    LET dots == {i \in 1..Len(q) : q[i] = "."}
        dot == CHOOSE i \in dots : TRUE
    IN  IF Cardinality(dots) > 1 \/ Cardinality(dots) = Len(q)
        THEN RaisedValueError
        ELSE Returned([mantissa |-> QtyMantissa(q, 1, 0),
                       scale |-> IF dots = {} THEN 1 ELSE 10^(Len(q) - dot)])

\* lines 42-54: the factor of a unit, in hundredths, or None
UnitFactor(unit) ==
    IF unit \in {<<"g">>, <<"g", "m">>, <<"g", "r", "a", "m">>, <<"g", "r", "a", "m", "s">>} THEN Some(100)
    ELSE IF unit = <<"k", "g">> THEN Some(100000)
    ELSE IF unit \in {<<"m", "l">>} THEN Some(100)
    ELSE IF unit \in {<<"l">>, <<"l", "i", "t", "r", "e">>, <<"l", "i", "t", "e", "r">>} THEN Some(100000)
    ELSE IF unit \in {<<"o", "z">>, <<"f", "l", " ", "o", "z">>} THEN Some(2835)
    ELSE IF unit \in {<<"l", "b">>, <<"p", "o", "u", "n", "d">>} THEN Some(45359)
    ELSE None

\* qty * factor, in thousandths
Scaled(qty, factor) == (qty.mantissa * factor * 10) \div qty.scale

\* lines 22-54
parse_size(size_str) ==
    IF size_str = <<>> THEN Returned(None)
    ELSE LET match == SizeSearch(lower(size_str), 1)
             qty == QtyFloat(Val(match).qty)
             factor == UnitFactor(Val(match).unit)
         IN  IF match = None THEN Returned(None)
             ELSE IF qty.raised THEN RaisedValueError
             ELSE IF factor = None THEN Returned(None)
             ELSE Returned(Some(Scaled(qty.value, Val(factor))))

\* str(n) of an integer n >= 0
RECURSIVE DecimalString(_)
DecimalString(n) ==
    IF n < 10 THEN <<Digits[n + 1]>>
    ELSE DecimalString(n \div 10) \o <<Digits[(n % 10) + 1]>>

\* sep.join(parts)
RECURSIVE Join(_, _)
Join(parts, sep) ==
    IF parts = <<>> THEN <<>>
    ELSE IF Len(parts) = 1 THEN parts[1]
    ELSE parts[1] \o sep \o Join(Tail(parts), sep)

\* lines 63-70: the parts of the fingerprint of an item (a record of its
\* item_name and its optional brand, size and pack_count)
FingerprintParts(item) ==
    (IF TruthyStr(item.brand) THEN <<lower(strip(Val(item.brand)))>> ELSE <<>>)
        \o <<lower(strip(item.item_name))>>
        \o (IF TruthyStr(item.size) THEN <<lower(strip(Val(item.size)))>> ELSE <<>>)
        \o (IF Truthy(item.pack_count)
            THEN <<DecimalString(Val(item.pack_count))>>
            ELSE <<>>)

\* lines 57-71
build_fingerprint(item) == Join(FingerprintParts(item), <<"|">>)

\* lines 91-95: one item normalised; parse_size may raise
NormalisedItem(item) ==
    LET size_base == IF TruthyStr(item.size)
                     THEN parse_size(Val(item.size))
                     ELSE Returned(None)
    IN  IF size_base.raised THEN size_base
        ELSE Returned([item |-> item,
                       fingerprint |-> build_fingerprint(item),
                       size_in_base_units |-> size_base.value])

\* lines 83-96: the loop; the first item that raises ends it
RECURSIVE normalise_items(_)
normalise_items(raw_items) ==
    IF raw_items = <<>> THEN Returned(<<>>)
    ELSE LET first == NormalisedItem(Head(raw_items))
             rest == normalise_items(Tail(raw_items))
         IN  IF first.raised THEN first
             ELSE IF rest.raised THEN rest
             ELSE Returned(<<first.value>> \o rest.value)

(***************************************************************************)
(* app/matching.py.  A listing (Candidate) is a record with its url, its   *)
(* brand, size, shelf_price (cents) and currency, each optional, and       *)
(* title_score, the value rapidfuzz's token_sort_ratio / 100 takes for it  *)
(* against the item's fingerprint, in units of 10^-4.  Component scores    *)
(* are in units of 10^-4 and the combined score in units of 10^-5; sizes   *)
(* in base units are in thousandths.                                       *)
(***************************************************************************)
ScoreOne == 10^4
ScoreHalf == ScoreOne \div 2
Milli == 10^3

\* lines 17-19: the similarity of the listing's title to the fingerprint
_string_score(cand) == cand.title_score

\* lines 22-26, were line 26 to compare the brands without strip()
_brand_score_NoStrip(item_brand, candidate_brand) ==
    IF ~TruthyStr(item_brand) \/ ~TruthyStr(candidate_brand)
    THEN ScoreHalf
    ELSE IF lower(Val(item_brand)) = lower(Val(candidate_brand))
         THEN ScoreOne
         ELSE 0

\* lines 22-26
_brand_score(item_brand, candidate_brand) ==
    IF ~TruthyStr(item_brand) \/ ~TruthyStr(candidate_brand)
    THEN ScoreHalf
    ELSE IF lower(strip(Val(item_brand))) = lower(strip(Val(candidate_brand)))
         THEN ScoreOne
         ELSE 0

\* line 41: re.search(r"([0-9]+\.?[0-9]*)", s): where the leftmost match starts
RECURSIVE FirstDigitAt(_, _)
FirstDigitAt(s, i) ==
    IF i > Len(s) THEN 0
    ELSE IF IsDigit(s[i]) THEN i
    ELSE FirstDigitAt(s, i + 1)

\* the end of the run of digits that starts at i
RECURSIVE DigitsEnd(_, _)
DigitsEnd(s, i) ==
    IF i <= Len(s) /\ IsDigit(s[i]) THEN DigitsEnd(s, i + 1) ELSE i

\* the value of the digits s[i..j-1], after the value v of those before
RECURSIVE DigitsValue(_, _, _, _)
DigitsValue(s, i, j, v) ==
    IF i >= j THEN v ELSE DigitsValue(s, i + 1, j, 10 * v + DigitValue(s[i]))

\* lines 41-44: float(match.group(1)) as mantissa / scale, or None
FirstNumber(s) ==
    LET start == FirstDigitAt(s, 1)
        intEnd == DigitsEnd(s, start)
        hasDot == intEnd <= Len(s) /\ s[intEnd] = "."
        fracEnd == IF hasDot THEN DigitsEnd(s, intEnd + 1) ELSE intEnd
        whole == DigitsValue(s, start, intEnd, 0)
    IN  IF start = 0 THEN None
        ELSE IF hasDot
             THEN Some([mantissa |-> DigitsValue(s, intEnd + 1, fracEnd, whole),
                        scale |-> 10^(fracEnd - intEnd - 1)])
             ELSE Some([mantissa |-> whole, scale |-> 1])

\* line 48, were it 0.9 < qty / size_item < 1.1
WithinTolerance_Strict(qty, size_item) ==
    /\ 9 * size_item * qty.scale < 10 * qty.mantissa * Milli
    /\ 10 * qty.mantissa * Milli < 11 * size_item * qty.scale

\* line 48: 0.9 <= qty / size_item <= 1.1, for size_item > 0
WithinTolerance(qty, size_item) ==
    /\ 9 * size_item * qty.scale <= 10 * qty.mantissa * Milli
    /\ 10 * qty.mantissa * Milli <= 11 * size_item * qty.scale

\* lines 29-50; the division by a zero size_item raises, and line 49 catches
_size_score(size_item, size_candidate) ==
    IF size_item = None \/ ~TruthyStr(size_candidate)
    THEN ScoreHalf
    ELSE LET match == FirstNumber(Val(size_candidate))
         IN  IF match = None THEN 0
             ELSE IF Val(size_item) = 0 THEN 0
             ELSE IF WithinTolerance(Val(match), Val(size_item))
                  THEN ScoreOne
                  ELSE 0

\* line 74: 0.6 * title + 0.2 * brand + 0.2 * size, in units of 10^-5
MatchScore(item, cand) ==
    6 * _string_score(cand)
        + 2 * _brand_score(item.brand, cand.brand)
        + 2 * _size_score(item.size_in_base_units, cand.size)

MATCH_THRESHOLD == 3 * ScoreOne

\* line 75, were it score > 0.3
Retained_Strictly(score) == score > MATCH_THRESHOLD

\* line 75
Retained(score) == score >= MATCH_THRESHOLD

\* line 76
MatchedCandidate(cand, score) ==
    [candidate |-> cand, match_score |-> score, effective_price |-> None]

\* lines 66-76: the loop over the candidates
RECURSIVE Scored(_, _)
Scored(item, candidates) ==
    IF candidates = <<>> THEN <<>>
    ELSE LET cand == Head(candidates)
             score == MatchScore(item, cand)
         IN  (IF Retained(score) THEN <<MatchedCandidate(cand, score)>> ELSE <<>>)
                 \o Scored(item, Tail(candidates))

\* the place of m, were the sort to put it before the elements of equal key
InsertByScore_BeforeEqual(m, sorted) ==
    LET n == Cardinality({i \in 1..Len(sorted) : sorted[i].match_score > m.match_score})
    IN  SubSeq(sorted, 1, n) \o <<m>> \o SubSeq(sorted, n + 1, Len(sorted))

\* list.sort(key, reverse=True) is stable: m, later in the list than every
\* element of sorted, goes after those whose key is not smaller
InsertByScore(m, sorted) ==
    LET n == Cardinality({i \in 1..Len(sorted) : sorted[i].match_score >= m.match_score})
    IN  SubSeq(sorted, 1, n) \o <<m>> \o SubSeq(sorted, n + 1, Len(sorted))

\* line 78
RECURSIVE SortByScore(_)
SortByScore(matched_list) ==
    IF matched_list = <<>> THEN <<>>
    ELSE InsertByScore(matched_list[Len(matched_list)],
                       SortByScore(SubSeq(matched_list, 1, Len(matched_list) - 1)))

\* lines 53-79
match_candidates(item, candidates) == SortByScore(Scored(item, candidates))

(***************************************************************************)
(* app/fx.py.  Rates are fractions; an amount in cents becomes an amount   *)
(* in micro-units.  No live converter is loaded (line 15 imports a module  *)
(* no distribution provides), so the table decides.                        *)
(***************************************************************************)
FALLBACK_RATES ==
    (<<<<"E", "U", "R">>, <<"U", "S", "D">>>> :> [num |-> 110, den |-> 100])
        @@ (<<<<"G", "B", "P">>, <<"U", "S", "D">>>> :> [num |-> 125, den |-> 100])
        @@ (<<<<"U", "S", "D">>, <<"E", "U", "R">>>> :> [num |-> 91, den |-> 100])
        @@ (<<<<"G", "B", "P">>, <<"E", "U", "R">>>> :> [num |-> 114, den |-> 100])
        @@ (<<<<"E", "U", "R">>, <<"G", "B", "P">>>> :> [num |-> 88, den |-> 100])
        @@ (<<<<"U", "S", "D">>, <<"G", "B", "P">>>> :> [num |-> 80, den |-> 100])

\* lines 67-74
FallbackRate(from_cur, to_cur) ==
    IF <<from_cur, to_cur>> \in DOMAIN FALLBACK_RATES
    THEN FALLBACK_RATES[<<from_cur, to_cur>>]
    ELSE IF <<to_cur, from_cur>> \in DOMAIN FALLBACK_RATES
         THEN [num |-> FALLBACK_RATES[<<to_cur, from_cur>>].den,
               den |-> FALLBACK_RATES[<<to_cur, from_cur>>].num]
         ELSE [num |-> 1, den |-> 1]

\* lines 44-75
convert(amount, from_currency, to_currency) ==
    LET from_cur == upper(from_currency)
        to_cur == upper(to_currency)
        rate == FallbackRate(from_cur, to_cur)
    IN  IF from_cur = to_cur
        THEN amount * Cent
        ELSE (amount * Cent * rate.num) \div rate.den

(***************************************************************************)
(* app/features.py: compute_competitor_features.  Effective prices and     *)
(* the statistics are in micro-units; the two ratios are kept as fractions *)
(* of micro-unit amounts.                                                  *)
(***************************************************************************)
\* line 25, with the truth value of a float: neither None nor 0.0
PricedCandidates(candidates) ==
    SelectSeq(candidates, LAMBDA cand : Truthy(cand.effective_price))

\* line 25, were it to read the shelf prices (cents, not converted)
Prices_Unconverted(candidates) ==
    LET priced == SelectSeq(candidates, LAMBDA cand : Truthy(cand.candidate.shelf_price))
    IN  [i \in 1..Len(priced) |-> Val(priced[i].candidate.shelf_price)]

\* line 25, were a listing without a price to count as one priced at zero
Prices_NoneAsZero(candidates) ==
    [i \in 1..Len(candidates) |->
        IF candidates[i].effective_price = None THEN 0
        ELSE Val(candidates[i].effective_price)]

\* line 25: the prices the statistics are taken over
Prices(candidates) ==
    LET priced == PricedCandidates(candidates)
    IN  [i \in 1..Len(priced) |-> Val(priced[i].effective_price)]

MaxOf(S) == CHOOSE x \in S : \A y \in S : x >= y

\* statistics.median: the middle of the sorted values, or the mean of the
\* two middle ones
RECURSIVE InsertAsc(_, _)
InsertAsc(x, sorted) ==
    IF sorted = <<>> THEN <<x>>
    ELSE IF x <= Head(sorted) THEN <<x>> \o sorted
    ELSE <<Head(sorted)>> \o InsertAsc(x, Tail(sorted))
RECURSIVE SortedAsc(_)
SortedAsc(xs) == IF xs = <<>> THEN <<>> ELSE InsertAsc(Head(xs), SortedAsc(Tail(xs)))
median(xs) ==
    LET sorted == SortedAsc(xs)
        n == Len(xs)
    IN  IF n % 2 = 1
        THEN sorted[(n + 1) \div 2]
        ELSE (sorted[n \div 2] + sorted[n \div 2 + 1]) \div 2

\* lines 15-55
compute_competitor_features(current_price, candidates) ==
    LET prices == Prices(candidates)
        min_price == Min(Range(prices))
        max_price == MaxOf(Range(prices))
        has_current == Truthy(current_price) /\ Val(current_price) > 0
    IN  IF prices = <<>>
        THEN [min_competitor |-> None,
              median_competitor |-> None,
              max_competitor |-> None,
              spread |-> None,
              num_competitors |-> 0,
              competitor_index |-> None,
              undercut_pct |-> None]
        ELSE [min_competitor |-> Some(min_price),
              median_competitor |-> Some(median(prices)),
              max_competitor |-> Some(max_price),
              spread |-> Some(max_price - min_price),
              num_competitors |-> Len(prices),
              competitor_index |->
                  IF has_current
                  THEN Some([num |-> min_price, den |-> Val(current_price) * Cent])
                  ELSE None,
              undercut_pct |->
                  IF has_current
                  THEN Some([num |-> Val(current_price) * Cent - min_price,
                             den |-> Val(current_price) * Cent])
                  ELSE None]

(***************************************************************************)
(* cli.py: run.  items is the normalised catalogue, each item a record of  *)
(* its item_id, brand, category, cogs and current_price (cents) and        *)
(* size_in_base_units, each but the first optional.  The event loop runs   *)
(* one task at a time: between two awaits a task's code is not             *)
(* interleaved with another's, and call says whose code is running.        *)
(***************************************************************************)
\* lines 62-67: the effective price of each matched listing
WithEffectivePrices(matched_list) ==
    [k \in 1..Len(matched_list) |->
        LET mc == matched_list[k]
        IN  [mc EXCEPT !.effective_price =
                IF mc.candidate.shelf_price # None /\ TruthyStr(mc.candidate.currency)
                THEN Some(convert(Val(mc.candidate.shelf_price),
                                  Val(mc.candidate.currency), BASE_CURRENCY))
                ELSE None]]

\* line 73: nitem.item.cogs or 0.0
CogsOrZero(item) == IF Truthy(item.cogs) THEN Val(item.cogs) ELSE 0

\* what run_all waits for
Unfinished == {"created", "searching", "optimising"}

\* lines 58-83: search_all returns candidates to the task of item i, which
\* runs up to its call of optimise_price
SearchReturns(i, candidates) ==
    /\ run = "running"
    /\ call = NoCall
    /\ task[i] = "searching"
    /\ LET nitem == items[i]
           matched_list == WithEffectivePrices(match_candidates(nitem, candidates))
           feats == compute_competitor_features(nitem.current_price, matched_list)
           elasticity == get_elasticity(nitem)
       IN  /\ matched' = matched_list
           /\ OptEnter(OptCall(i, CogsOrZero(nitem), elasticity, nitem.current_price,
                               feats.min_competitor, DEFAULT_MARGIN_FLOOR, 100, 50))
    /\ task' = [task EXCEPT ![i] = "optimising"]
    /\ UNCHANGED <<items, results, run, written>>
    /\ UNCHANGED scrapeVars

\* line 58: the task of item i starts and awaits search_all
StartItem(i) ==
    /\ run = "running"
    /\ call = NoCall
    /\ task[i] = "created"
    /\ task' = [task EXCEPT ![i] = "searching"]
    /\ UNCHANGED <<call, opt, ret, items, matched, results, run, written>>
    /\ UNCHANGED scrapeVars

\* lines 75-83: optimise_price raised; nothing in process_item catches it
ItemRaises(i) ==
    /\ call # NoCall
    /\ call.by = i
    /\ ret # None
    /\ Val(ret).raised
    /\ task' = [task EXCEPT ![i] = "raised"]
    /\ call' = NoCall
    /\ opt' = OptIdle
    /\ ret' = None
    /\ matched' = <<>>
    /\ UNCHANGED <<items, results, run, written>>
    /\ UNCHANGED scrapeVars

\* lines 89-102, were process_item to read the item through the variable of
\* the loop that created the tasks, which holds the last item by then
PriceRecommendation_LastItem(nitem, result, matched_list) ==
    [item_id |-> items[Len(items)].item_id,
     current_price |-> items[Len(items)].current_price,
     recommended_price |-> Some(result.best_price),
     currency |-> BASE_CURRENCY,
     expected_units |-> Some(result.best_units),
     expected_profit |-> Some(result.best_profit),
     profit_uplift_vs_current_pct |-> result.profit_uplift_pct,
     demand_lift_vs_current_pct |-> result.demand_uplift_pct,
     competitor_summary |-> matched_list]

\* lines 89-102
PriceRecommendation(nitem, result, matched_list) ==
    [item_id |-> nitem.item_id,
     current_price |-> nitem.current_price,
     recommended_price |-> Some(result.best_price),
     currency |-> BASE_CURRENCY,
     expected_units |-> Some(result.best_units),
     expected_profit |-> Some(result.best_profit),
     profit_uplift_vs_current_pct |-> result.profit_uplift_pct,
     demand_lift_vs_current_pct |-> result.demand_uplift_pct,
     competitor_summary |-> matched_list]

\* lines 84-103: optimise_price returned; the recommendation is appended
ItemDone(i) ==
    /\ call # NoCall
    /\ call.by = i
    /\ ret # None
    /\ ~Val(ret).raised
    /\ results' = Append(results, PriceRecommendation(items[i], Val(ret), matched))
    /\ task' = [task EXCEPT ![i] = "done"]
    /\ call' = NoCall
    /\ opt' = OptIdle
    /\ ret' = None
    /\ matched' = <<>>
    /\ UNCHANGED <<items, run, written>>
    /\ UNCHANGED scrapeVars

\* lines 107 and 110: gather hands the first exception to run_all, which does
\* not catch it; asyncio.run cancels the tasks still pending and raises, so
\* lines 111-148 do not run
GatherRaises ==
    /\ run = "running"
    /\ call = NoCall
    /\ \E i \in 1..Len(task) : task[i] = "raised"
    /\ task' = [i \in 1..Len(task) |->
                   IF task[i] \in Unfinished THEN "cancelled" ELSE task[i]]
    /\ run' = "raised"
    /\ UNCHANGED <<call, opt, ret, items, matched, results, written>>
    /\ UNCHANGED scrapeVars

\* lines 107-148: every task is done; the outputs are written
WriteOutputs ==
    /\ run = "running"
    /\ call = NoCall
    /\ \A i \in 1..Len(task) : task[i] = "done"
    /\ written' = Some(results)
    /\ run' = "finished"
    /\ UNCHANGED <<call, opt, ret, items, task, matched, results>>
    /\ UNCHANGED scrapeVars

(***************************************************************************)
(* app/scrape/base.py: ScraperManager.  A _search_store task is named by   *)
(* its item and its scraper's place in self.scrapers; manager holds the    *)
(* concurrency it was made with, the number of its scrapers and the        *)
(* semaphore's counter and queue of waiting tasks.                         *)
(***************************************************************************)
managerVars == <<manager, search, found>>
limiterVars == <<limiter, now, acquiring>>
coreVars == <<call, opt, ret, items, task, matched, results, run, written>>

\* lines 141-143: ScraperManager(scrapers, concurrency)
ScraperManager(scrapers, concurrency) ==
    [scrapers |-> scrapers, concurrency |-> concurrency,
     value |-> concurrency, waiters |-> <<>>]

\* a _search_store task that search_all has not made yet
IdleSearch == [st |-> "idle", queued |-> FALSE, listings |-> <<>>]

\* a task has finished once its search returned or raised
Finished(t) == search[t].st \in {"returned", "raised"}

\* the searches in progress: past line 146 and inside scraper.search
InProgress == Cardinality({t \in DOMAIN search : search[t].st = "searching"})

\* line 146, Semaphore.locked, were it never to report the semaphore taken
locked_Never(m) == FALSE

\* line 146, Semaphore.locked: no permit is left or a task is queued
locked(m) == m.value = 0 \/ m.waiters # <<>>

\* line 146, Semaphore._wake_up_next: the first queued task not woken yet
NextWaiter(m, tasks) ==
    LET pending == SelectSeq(m.waiters, LAMBDA t : tasks[t].st = "waiting")
    IN  IF pending = <<>> THEN None ELSE Some(Head(pending))

\* line 146, Semaphore._wake_up_next: the waiter, if any, is handed a permit
WakeUpNext(m, tasks) ==
    LET waiter == NextWaiter(m, tasks)
    IN  IF waiter = None
        THEN [manager |-> m, search |-> tasks]
        ELSE [manager |-> [m EXCEPT !.value = @ - 1],
              search |-> [tasks EXCEPT ![Val(waiter)].st = "woken"]]

\* line 146, leaving the async with: Semaphore.release
Release(m, tasks) == WakeUpNext([m EXCEPT !.value = @ + 1], tasks)

\* the k-th listing of a result page of store s
StoreListing(s, k) == [store |-> s, rank |-> k]

\* what a store's search may return
SearchOutcomes(s) ==
    {<<>>, <<StoreListing(s, 1)>>, <<StoreListing(s, 1), StoreListing(s, 2)>>}

\* lines 151-152: search_all makes one _search_store per scraper and gather
\* schedules them
CallSearchAll(i) ==
    /\ i \in DOMAIN found
    /\ \A s \in 1..manager.scrapers : search[<<i, s>>].st = "idle"
    /\ search' = [t \in DOMAIN search |->
                     IF t[1] = i THEN [search[t] EXCEPT !.st = "created"] ELSE search[t]]
    /\ UNCHANGED <<manager, found>>
    /\ UNCHANGED limiterVars
    /\ UNCHANGED coreVars

\* lines 146-147: the task starts; Semaphore.acquire takes a permit and the
\* search begins, or the task queues up
_search_store(t) ==
    /\ t \in DOMAIN search
    /\ search[t].st = "created"
    /\ IF ~locked(manager)
       THEN /\ manager' = [manager EXCEPT !.value = @ - 1]
            /\ search' = [search EXCEPT ![t].st = "searching"]
       ELSE /\ manager' = [manager EXCEPT !.waiters = Append(@, t)]
            /\ search' = [search EXCEPT ![t].st = "waiting", ![t].queued = TRUE]
    /\ UNCHANGED found
    /\ UNCHANGED limiterVars
    /\ UNCHANGED coreVars

\* line 146, the rest of Semaphore.acquire: the woken task leaves the queue,
\* passes a spare permit on and begins its search (line 147)
Resume(t) ==
    /\ t \in DOMAIN search
    /\ search[t].st = "woken"
    /\ LET left == [manager EXCEPT !.waiters = SelectSeq(@, LAMBDA w : w # t)]
           begun == [search EXCEPT ![t].st = "searching"]
           next == IF left.value > 0 THEN WakeUpNext(left, begun)
                   ELSE [manager |-> left, search |-> begun]
       IN  /\ manager' = next.manager
           /\ search' = next.search
    /\ UNCHANGED found
    /\ UNCHANGED limiterVars
    /\ UNCHANGED coreVars

\* lines 146-147: scraper.search returns its listings; the permit is released
SearchReturned(t) ==
    /\ t \in DOMAIN search
    /\ search[t].st = "searching"
    /\ \E listings \in SearchOutcomes(t[2]) :
        LET ended == [search EXCEPT ![t].st = "returned", ![t].listings = listings]
            next == Release(manager, ended)
        IN  /\ manager' = next.manager
            /\ search' = next.search
    /\ UNCHANGED found
    /\ UNCHANGED limiterVars
    /\ UNCHANGED coreVars

\* lines 146-147: scraper.search raises; the permit is released
SearchRaised(t) ==
    /\ t \in DOMAIN search
    /\ search[t].st = "searching"
    /\ LET ended == [search EXCEPT ![t].st = "raised"]
           next == Release(manager, ended)
       IN  /\ manager' = next.manager
           /\ search' = next.search
    /\ UNCHANGED found
    /\ UNCHANGED limiterVars
    /\ UNCHANGED coreVars

\* line 152, were gather called without return_exceptions: the first
\* exception is raised to search_all
gather_Propagating(tasks) ==
    IF \E k \in 1..Len(tasks) : tasks[k].st = "raised"
    THEN [raised |-> TRUE, results |-> <<>>]
    ELSE [raised |-> FALSE, results |-> tasks]

\* line 152: gather(*tasks, return_exceptions=True) hands back every task's
\* outcome, exception or list, in the order of the tasks
gather(tasks) == [raised |-> FALSE, results |-> tasks]

\* lines 153-158: the lists are joined in order, the exceptions only logged
RECURSIVE Candidates(_)
Candidates(gathered) ==
    IF gathered = <<>> THEN <<>>
    ELSE IF Head(gathered).st = "raised" THEN Candidates(Tail(gathered))
    ELSE Head(gathered).listings \o Candidates(Tail(gathered))

\* lines 149-159: what search_all hands to its caller
search_all(tasks) ==
    LET gathered == gather(tasks)
    IN  IF gathered.raised THEN [raised |-> TRUE, candidates |-> <<>>]
        ELSE [raised |-> FALSE, candidates |-> Candidates(gathered.results)]

\* lines 152-159: every task of item i has finished and search_all returns
SearchAllReturns(i) ==
    /\ i \in DOMAIN found
    /\ found[i] = None
    /\ \A s \in 1..manager.scrapers : Finished(<<i, s>>)
    /\ found' = [found EXCEPT ![i] = Some(search_all([s \in 1..manager.scrapers |->
                                                          search[<<i, s>>]]))]
    /\ UNCHANGED <<manager, search>>
    /\ UNCHANGED limiterVars
    /\ UNCHANGED coreVars

\* no ScraperManager is in use
ManagerIdle ==
    /\ manager = ScraperManager(0, 0)
    /\ search = <<>>
    /\ found = <<>>

(***************************************************************************)
(* app/scrape/base.py: RateLimiter.  Time is counted in half seconds and   *)
(* tokens in halves; Whole is one second and one token.  holder is the     *)
(* caller inside `async with self.lock` (0 when nobody is) and waiters the *)
(* callers queued for the lock.                                            *)
(***************************************************************************)
Whole == 2

\* lines 32-37: RateLimiter(rate, burst), made at time 0
RateLimiter(rate, burst) ==
    [rate |-> rate, burst |-> burst, tokens |-> burst * Whole, last |-> 0,
     holder |-> 0, waiters |-> <<>>]

\* an acquire() that is not running
IdleAcquire == [pc |-> "idle", now |-> 0, until |-> 0]

\* lines 41-45: the tokens after the refill for the time since self.last
Refilled(l, t) ==
    LET refill == (t - l.last) * l.rate
    IN  IF l.tokens + refill < l.burst * Whole THEN l.tokens + refill ELSE l.burst * Whole

\* line 48: wait_time = (1 - self.tokens) / self.rate
wait_time(l, tokens) == (Whole - tokens) \div l.rate

\* line 40, leaving the async with: the lock passes to the first caller queued
Unlock(l) ==
    IF l.waiters = <<>> THEN [l EXCEPT !.holder = 0]
    ELSE [l EXCEPT !.holder = Head(l.waiters), !.waiters = Tail(l.waiters)]

\* lines 41-52 for caller c, the lock being its own: with a token left it
\* takes one and is done; without, it goes to sleep holding the lock
Enter(c) ==
    LET tokens == Refilled(limiter, now)
    IN  IF tokens < Whole
        THEN /\ limiter' = [limiter EXCEPT !.tokens = tokens, !.holder = c]
             /\ acquiring' = [acquiring EXCEPT
                    !.callers[c] = [pc |-> "sleeping", now |-> now,
                                    until |-> now + wait_time(limiter, tokens)]]
        ELSE /\ limiter' = Unlock([limiter EXCEPT !.tokens = tokens - Whole, !.last = now])
             /\ acquiring' = [acquiring EXCEPT !.callers[c] = IdleAcquire,
                                               !.completed = Append(@, now)]

\* lines 39-40: caller c calls acquire(); it enters if the lock is free and
\* queues for it otherwise
CallAcquire(c) ==
    /\ c \in DOMAIN acquiring.callers
    /\ acquiring.callers[c].pc = "idle"
    /\ IF limiter.holder = 0
       THEN Enter(c)
       ELSE /\ limiter' = [limiter EXCEPT !.waiters = Append(@, c)]
            /\ acquiring' = [acquiring EXCEPT !.callers[c].pc = "waiting"]
    /\ UNCHANGED now
    /\ UNCHANGED managerVars
    /\ UNCHANGED coreVars

\* line 40: the lock was passed to caller c, which enters
LockGranted(c) ==
    /\ c \in DOMAIN acquiring.callers
    /\ acquiring.callers[c].pc = "waiting"
    /\ limiter.holder = c
    /\ Enter(c)
    /\ UNCHANGED now
    /\ UNCHANGED managerVars
    /\ UNCHANGED coreVars

\* lines 49-52: the sleep of caller c is over; tokens is set to 0.0, one is
\* taken, and self.last becomes the time read at line 41, before the sleep
SleepEnds(c) ==
    /\ c \in DOMAIN acquiring.callers
    /\ acquiring.callers[c].pc = "sleeping"
    /\ acquiring.callers[c].until <= now
    /\ limiter' = Unlock([limiter EXCEPT !.tokens = 0 - Whole,
                                         !.last = acquiring.callers[c].now])
    /\ acquiring' = [acquiring EXCEPT !.callers[c] = IdleAcquire,
                                      !.completed = Append(@, now)]
    /\ UNCHANGED now
    /\ UNCHANGED managerVars
    /\ UNCHANGED coreVars

\* the length of time followed, in half seconds
MaxTime == 7

\* half a second passes; the event loop has by then run every caller that
\* was ready: one whose sleep is over, one the lock was passed to
Tick ==
    /\ now < MaxTime
    /\ \A c \in DOMAIN acquiring.callers :
           /\ ~(acquiring.callers[c].pc = "sleeping" /\ acquiring.callers[c].until <= now)
           /\ ~(acquiring.callers[c].pc = "waiting" /\ limiter.holder = c)
    /\ now' = now + 1
    /\ UNCHANGED <<limiter, acquiring>>
    /\ UNCHANGED managerVars
    /\ UNCHANGED coreVars

\* no RateLimiter is in use
LimiterIdle ==
    /\ limiter = RateLimiter(1, 1)
    /\ now = 0
    /\ acquiring = [callers |-> <<>>, completed |-> <<>>]

(***************************************************************************)
(* The harness of the functions: one call from outside, then its return.   *)
(***************************************************************************)
MaxRoundCents == 1600
RoundPrices ==
    {c * Cent : c \in 0..MaxRoundCents} \cup {12376000, 12374000, 11968000, 968000}
EndingLists == {PSYCHOLOGICAL_ENDINGS, <<95, 99>>}

CogsValues == {-500, 0, 88, 400, 1000}
ElasticityValues == {-12, -15, -20, -30}
CurrentValues == {None, Some(0), Some(300), Some(400), Some(1200)}
CompetitorValues ==
    {None, Some(0), Some(900 * Cent), Some(1500 * Cent), Some(1800 * Cent)}
MarginValues == {0, DEFAULT_MARGIN_FLOOR}
BaselineValues == {0, 100}
StepValues == {50, 180}

\* the words of the inputs
Acme == <<"A", "c", "m", "e">>
AcmePadded == <<" ", "A", "C", "M", "E", " ">>
AcmeLower == <<"a", "c", "m", "e">>
Other == <<"O", "t", "h", "e", "r">>
Size500g == <<"5", "0", "0", "g">>
Size450g == <<"4", "5", "0", " ", "g">>
Size1kg == <<"1", " ", "k", "g">>
SizeWords == <<"o", "n", "e">>

\* the items matched against: with a brand and a size, with neither, and
\* with a size of zero
MatchItems ==
    {[brand |-> Some(Acme), size_in_base_units |-> Some(500 * Milli)],
     [brand |-> None, size_in_base_units |-> None],
     [brand |-> Some(AcmePadded), size_in_base_units |-> Some(0)]}

Listing(title_score, brand, size) ==
    [url |-> 0, title_score |-> title_score, brand |-> brand, size |-> size,
     shelf_price |-> None, currency |-> None]

\* the listings a search returns, before their place in the list is known
ListingPool ==
    {Listing(0, Some(AcmeLower), None),
     Listing(1665, None, None),
     Listing(ScoreOne, Some(Acme), Some(Size500g)),
     Listing(ScoreHalf, Some(Other), Some(Size1kg)),
     Listing(ScoreHalf, None, Some(Size450g)),
     Listing(3333, Some(AcmePadded), Some(SizeWords))}

MaxListings == 3

\* the lists of at most MaxListings listings; a listing's url is its place
ListingLists ==
    UNION {{[i \in 1..n |-> [f[i] EXCEPT !.url = i]] : f \in [1..n -> ListingPool]} :
              n \in 0..MaxListings}

\* the size strings: a quantity, spaces or none, a unit, and "n/a"
SizeQuantities ==
    {<<"5", "0", "0">>, <<"1", ".", "5">>, <<"8">>, <<"2">>, <<"1">>, <<"0">>, <<".", "5">>, <<"5", ".">>, <<"1", ".", "2", ".", "3">>, <<".">>, <<>>}
SizeSpaces == {<<>>, <<" ">>}
SizeUnitWords ==
    Range(SIZE_UNITS) \cup {<<>>, <<"x">>, <<"K", "G">>, <<"L", "b">>, <<"O", "Z">>}
SizeStrings ==
    {q \o w \o u : q \in SizeQuantities, w \in SizeSpaces, u \in SizeUnitWords}
        \cup {<<"n", "/", "a">>}

TeaPadded == <<" ", "G", "r", "e", "e", "n", " ", "T", "e", "a", " ">>
SizeBadNumber == <<"1", ".", "2", ".", "3", "k", "g">>
Size2LbPadded == <<" ", "2", " ", "L", "B", " ">>

RawItem(brand, size, pack_count) ==
    [item_name |-> TeaPadded, brand |-> brand, size |-> size, pack_count |-> pack_count]

\* the catalogue rows fingerprinted: each optional field absent, empty or
\* zero, and present
RawItems ==
    {RawItem(brand, size, pack_count) :
        brand \in {None, Some(<<>>), Some(AcmePadded)},
        size \in {None, Some(<<>>), Some(Size500g), Some(SizeBadNumber),
                  Some(Size2LbPadded)},
        pack_count \in {None, Some(0), Some(12)}}

MaxRawItems == 2

\* the rows normalised together
NormalisePool ==
    {RawItem(None, size, None) :
        size \in {None, Some(<<>>), Some(Size500g), Some(SizeBadNumber), Some(Size1kg)}}
RawCatalogues ==
    UNION {[1..n -> NormalisePool] : n \in 0..MaxRawItems}

CliIdle ==
    /\ items = <<>>
    /\ task = <<>>
    /\ matched = <<>>
    /\ results = <<>>
    /\ run = "idle"
    /\ written = None

InitFn ==
    /\ call = NoCall
    /\ opt = OptIdle
    /\ ret = None
    /\ CliIdle
    /\ ManagerIdle
    /\ LimiterIdle

CallRoundToEnding ==
    /\ call = NoCall
    /\ \E price \in RoundPrices, endings \in EndingLists :
        /\ call' = [fn |-> "round_to_ending", by |-> 0,
                    price |-> price, endings |-> endings]
        /\ ret' = Some(round_to_ending(price, endings))
    /\ UNCHANGED opt
    /\ UNCHANGED cliVars
    /\ UNCHANGED scrapeVars

CallOptimisePrice ==
    /\ call = NoCall
    /\ \E cogs \in CogsValues, elasticity \in ElasticityValues,
          current_price \in CurrentValues, competitor_min_price \in CompetitorValues,
          margin_floor \in MarginValues, baseline_units \in BaselineValues,
          price_step \in StepValues :
        OptEnter(OptCall(0, cogs, elasticity, current_price, competitor_min_price,
                         margin_floor, baseline_units, price_step))
    /\ UNCHANGED cliVars
    /\ UNCHANGED scrapeVars

\* the caller takes the result
Return ==
    /\ call # NoCall
    /\ call.by = 0
    /\ ret # None
    /\ call' = NoCall
    /\ opt' = OptIdle
    /\ ret' = None
    /\ UNCHANGED cliVars
    /\ UNCHANGED scrapeVars

CallMatchCandidates ==
    /\ call = NoCall
    /\ \E item \in MatchItems, candidates \in ListingLists :
        /\ call' = [fn |-> "match_candidates", by |-> 0,
                    item |-> item, candidates |-> candidates]
        /\ ret' = Some(match_candidates(item, candidates))
    /\ UNCHANGED opt
    /\ UNCHANGED cliVars
    /\ UNCHANGED scrapeVars

CallParseSize ==
    /\ call = NoCall
    /\ \E size_str \in SizeStrings :
        /\ call' = [fn |-> "parse_size", by |-> 0, size_str |-> size_str]
        /\ ret' = Some(parse_size(size_str))
    /\ UNCHANGED opt
    /\ UNCHANGED cliVars
    /\ UNCHANGED scrapeVars

CallBuildFingerprint ==
    /\ call = NoCall
    /\ \E item \in RawItems :
        /\ call' = [fn |-> "build_fingerprint", by |-> 0, item |-> item]
        /\ ret' = Some(build_fingerprint(item))
    /\ UNCHANGED opt
    /\ UNCHANGED cliVars
    /\ UNCHANGED scrapeVars

CallNormaliseItems ==
    /\ call = NoCall
    /\ \E raw_items \in RawCatalogues :
        /\ call' = [fn |-> "normalise_items", by |-> 0, raw_items |-> raw_items]
        /\ ret' = Some(normalise_items(raw_items))
    /\ UNCHANGED opt
    /\ UNCHANGED cliVars
    /\ UNCHANGED scrapeVars

NextIngest == CallParseSize \/ CallBuildFingerprint \/ CallNormaliseItems \/ Return
SpecIngest == InitFn /\ [][NextIngest]_vars

NextRound == CallRoundToEnding \/ Return
SpecRound == InitFn /\ [][NextRound]_vars

\* the brands of an item or a listing: absent, empty, and four spellings
BrandValues ==
    {None, Some(<<>>), Some(Acme), Some(AcmePadded), Some(AcmeLower), Some(Other)}

CallBrandScore ==
    /\ call = NoCall
    /\ \E item_brand \in BrandValues, candidate_brand \in BrandValues :
        /\ call' = [fn |-> "_brand_score", by |-> 0,
                    item_brand |-> item_brand, candidate_brand |-> candidate_brand]
        /\ ret' = Some(_brand_score(item_brand, candidate_brand))
    /\ UNCHANGED opt
    /\ UNCHANGED cliVars
    /\ UNCHANGED scrapeVars

\* an item's size in base units: unknown, 0, 500, 1000 and 1.5
ItemSizes == {None, Some(0), Some(500 * Milli), Some(1000 * Milli), Some(1500)}

\* a listing's size string: absent, empty, and strings with and without a
\* number
CandidateSizes ==
    {None, Some(<<>>)} \cup {Some(s) : s \in {<<"5", "0", "0", "g">>,
                                <<"4", "5", "0", " ", "g">>,
                                <<"4", "4", "9", "g">>,
                                <<"5", "5", "0", "g">>,
                                <<"5", "5", "1", "g">>,
                                <<"1", " ", "k", "g">>,
                                <<"o", "n", "e">>,
                                <<"1", ".", "5">>,
                                <<"0", ".", "4", "5">>,
                                <<"2", " ", "x", " ", "5", "0", "0", "g">>,
                                <<"4", "9", "9", ".", "9">>,
                                <<".", "5", " ", "k", "g">>}}

CallSizeScore ==
    /\ call = NoCall
    /\ \E size_item \in ItemSizes, size_candidate \in CandidateSizes :
        /\ call' = [fn |-> "_size_score", by |-> 0,
                    size_item |-> size_item, size_candidate |-> size_candidate]
        /\ ret' = Some(_size_score(size_item, size_candidate))
    /\ UNCHANGED opt
    /\ UNCHANGED cliVars
    /\ UNCHANGED scrapeVars

NextMatch == CallMatchCandidates \/ CallBrandScore \/ CallSizeScore \/ Return
SpecMatch == InitFn /\ [][NextMatch]_vars

\* calls with cogs > 0, elasticity -1.0 and any price_step: -0.50, 0 and 0.50
AnyStepValues == {-50, 0, 50}

CallOptimiseAnyStep ==
    /\ call = NoCall
    /\ \E cogs \in {400, 1000}, current_price \in {None, Some(300), Some(1200)},
          competitor_min_price \in {None, Some(900 * Cent)},
          margin_floor \in {-50, 0, DEFAULT_MARGIN_FLOOR}, baseline_units \in BaselineValues,
          price_step \in AnyStepValues :
        OptEnter(OptCall(0, cogs, -10, current_price, competitor_min_price,
                         margin_floor, baseline_units, price_step))
    /\ UNCHANGED cliVars
    /\ UNCHANGED scrapeVars

\* optimise_price runs on once it is called
NextAnyStep == CallOptimiseAnyStep \/ OptStep \/ Return
SpecAnyStep == InitFn /\ [][NextAnyStep]_vars /\ WF_vars(OptStep)

NextOptimise == CallOptimisePrice \/ OptStep \/ Return
SpecOptimise == InitFn /\ [][NextOptimise]_vars

(***************************************************************************)
(* The run of the CLI over a catalogue.                                    *)
(***************************************************************************)
Default == <<"d", "e", "f", "a", "u", "l", "t">>
ClothingMixed == <<"C", "l", "o", "t", "h", "i", "n", "g">>
Usd == <<"U", "S", "D">>
EurLower == <<"e", "u", "r">>

CatalogueItem(category, cogs, current_price) ==
    [item_id |-> 0, brand |-> Some(Acme), category |-> category, cogs |-> cogs,
     current_price |-> current_price, size_in_base_units |-> None]

\* the rows of the catalogue: the end-to-end example, a row without cogs, a
\* row with a zero cogs and a row without a current price or a category
ItemPool ==
    {CatalogueItem(Some(Default), Some(1000), Some(2000)),
     CatalogueItem(Some(ClothingMixed), None, Some(1200)),
     CatalogueItem(None, Some(0), None),
     CatalogueItem(None, Some(400), None)}

MaxItems == 2

\* the catalogues of 1 to MaxItems rows; a row's item_id is its place
Catalogues ==
    UNION {{[i \in 1..n |-> [f[i] EXCEPT !.item_id = i]] : f \in [1..n -> ItemPool]} :
              n \in 1..MaxItems}

PricedListing(url, title_score, shelf_price, currency) ==
    [url |-> url, title_score |-> title_score, brand |-> None, size |-> None,
     shelf_price |-> shelf_price, currency |-> currency]

\* what search_all returns for an item: nothing; one listing at 18.00 USD;
\* a listing at 15.00 eur, an unpriced one and one too unlike the item
SearchResults ==
    {<<>>,
     <<PricedListing(1, ScoreOne, Some(1800), Some(Usd))>>,
     <<PricedListing(1, ScoreHalf, None, Some(Usd)),
       PricedListing(2, ScoreOne, Some(1500), Some(EurLower)),
       PricedListing(3, 0, Some(100), Some(Usd))>>}

\* baselines, prices and reference prices (micro-units, at whole cents) and
\* elasticities (tenths) of a call of expected_units
DemandBaselines == {0, 1, 100}
DemandPrices == {-100 * Cent, 0, 1 * Cent, 999 * Cent, 1000 * Cent, 1001 * Cent, 2000 * Cent}
DemandReferences == {-100 * Cent, 0, 1000 * Cent, 2000 * Cent}
DemandElasticities == {-15, -12, -11, 5}

CallExpectedUnits ==
    /\ call = NoCall
    /\ \E baseline_units \in DemandBaselines, price \in DemandPrices,
          reference_price \in DemandReferences, elasticity \in DemandElasticities :
        /\ call' = [fn |-> "expected_units", by |-> 0,
                    baseline_units |-> baseline_units, price |-> price,
                    reference_price |-> reference_price, elasticity |-> elasticity]
        /\ ret' = Some(expected_units(baseline_units, price, reference_price, elasticity))
    /\ UNCHANGED opt
    /\ UNCHANGED cliVars
    /\ UNCHANGED scrapeVars

\* the categories of an item: absent, empty, keys of the table in several
\* cases, a padded key and an unknown word
Categories ==
    {None, Some(<<>>), Some(Default)} \cup {Some(c) : c \in {<<"c", "l", "o", "t", "h", "i", "n", "g">>,
                                  <<"C", "l", "o", "t", "h", "i", "n", "g">>,
                                  <<"H", "O", "M", "E">>,
                                  <<"A", "c", "c", "e", "s", "s", "o", "r", "i", "e", "s">>,
                                  <<" ", "c", "l", "o", "t", "h", "i", "n", "g", " ">>,
                                  <<"t", "o", "y", "s">>,
                                  <<"D", "E", "F", "A", "U", "L", "T">>}}

CallGetElasticity ==
    /\ call = NoCall
    /\ \E category \in Categories :
        /\ call' = [fn |-> "get_elasticity", by |-> 0,
                    item |-> CatalogueItem(category, Some(1000), Some(2000))]
        /\ ret' = Some(get_elasticity(call'.item))
    /\ UNCHANGED opt
    /\ UNCHANGED cliVars
    /\ UNCHANGED scrapeVars

NextDemand == CallExpectedUnits \/ CallGetElasticity \/ Return
SpecDemand == InitFn /\ [][NextDemand]_vars

\* the effective prices of matched listings: none, 0.00, 18.00, 20.00, 24.00
EffectivePrices == {None, Some(0), Some(18 * Unit), Some(20 * Unit), Some(24 * Unit)}

\* a matched listing whose shelf price in the base currency gave its
\* effective price
PricedMatch(url, effective_price) ==
    [candidate |-> PricedListing(url, ScoreOne,
                       IF effective_price = None THEN None
                       ELSE Some(Val(effective_price) \div Cent), Some(Usd)),
     match_score |-> 4 * ScoreOne,
     effective_price |-> effective_price]

MatchedLists ==
    UNION {{[i \in 1..n |-> PricedMatch(i, f[i])] : f \in [1..n -> EffectivePrices]} :
              n \in 0..MaxListings}

\* current prices: absent, 0.00, -5.00, 20.00
FeatureCurrentPrices == {None, Some(0), Some(-500), Some(2000)}

CallComputeCompetitorFeatures ==
    /\ call = NoCall
    /\ \E current_price \in FeatureCurrentPrices, candidates \in MatchedLists :
        /\ call' = [fn |-> "compute_competitor_features", by |-> 0,
                    current_price |-> current_price, candidates |-> candidates]
        /\ ret' = Some(compute_competitor_features(current_price, candidates))
    /\ UNCHANGED opt
    /\ UNCHANGED cliVars
    /\ UNCHANGED scrapeVars

NextFeatures == CallComputeCompetitorFeatures \/ Return
SpecFeatures == InitFn /\ [][NextFeatures]_vars

\* the managers looked at: two items over two scrapers, one item over three,
\* made with a concurrency of 0, 1 or 2
ManagerShapes == {[items |-> 2, scrapers |-> 2], [items |-> 1, scrapers |-> 3]}
ConcurrencyValues == {0, 1, 2}
ManagerItems == {1, 2}
ManagerTasks == {1, 2} \X {1, 2, 3}

\* cli.py line 53: the manager is made; no item has called search_all yet
InitManager ==
    /\ call = NoCall
    /\ opt = OptIdle
    /\ ret = None
    /\ CliIdle
    /\ LimiterIdle
    /\ \E shape \in ManagerShapes, concurrency \in ConcurrencyValues :
        /\ manager = ScraperManager(shape.scrapers, concurrency)
        /\ search = [t \in (1..shape.items) \X (1..shape.scrapers) |-> IdleSearch]
        /\ found = [i \in 1..shape.items |-> None]

NextManager ==
    \/ \E i \in ManagerItems : CallSearchAll(i)
    \/ \E t \in ManagerTasks : _search_store(t)
    \/ \E t \in ManagerTasks : Resume(t)
    \/ \E t \in ManagerTasks : SearchReturned(t)
    \/ \E t \in ManagerTasks : SearchRaised(t)
    \/ \E i \in ManagerItems : SearchAllReturns(i)

\* the event loop runs every task that is ready, and a search that has begun
\* returns or raises
SpecManager ==
    /\ InitManager
    /\ [][NextManager]_vars
    /\ \A t \in ManagerTasks : WF_vars(Resume(t))
    /\ \A t \in ManagerTasks : WF_vars(SearchReturned(t) \/ SearchRaised(t))

\* the limiters looked at: a rate of 1 or 2 per second, a burst of 1 or 2,
\* used by two callers
LimiterRates == {1, 2}
LimiterBursts == {1, 2}
LimiterCallers == {1, 2}

\* lines 32-37: the limiter has just been made
InitLimiter ==
    /\ call = NoCall
    /\ opt = OptIdle
    /\ ret = None
    /\ CliIdle
    /\ ManagerIdle
    /\ \E rate \in LimiterRates, burst \in LimiterBursts :
           limiter = RateLimiter(rate, burst)
    /\ now = 0
    /\ acquiring = [callers |-> [c \in LimiterCallers |-> IdleAcquire], completed |-> <<>>]

NextLimiter ==
    \/ \E c \in LimiterCallers : CallAcquire(c)
    \/ \E c \in LimiterCallers : LockGranted(c)
    \/ \E c \in LimiterCallers : SleepEnds(c)
    \/ Tick

SpecLimiter == InitLimiter /\ [][NextLimiter]_vars

\* lines 49-54 and 105-110: the catalogue is read, run_all has created one
\* task per item and awaits them
Init ==
    /\ call = NoCall
    /\ opt = OptIdle
    /\ ret = None
    /\ items \in Catalogues
    /\ task = [i \in 1..Len(items) |-> "created"]
    /\ matched = <<>>
    /\ results = <<>>
    /\ run = "running"
    /\ written = None
    /\ ManagerIdle
    /\ LimiterIdle

Next ==
    \/ \E i \in 1..Len(items) : StartItem(i)
    \/ \E i \in 1..Len(items) : \E candidates \in SearchResults :
           SearchReturns(i, candidates)
    \/ GridStep
    \/ GridExit
    \/ ScanStep
    \/ OptReturn
    \/ \E i \in 1..Len(items) : ItemRaises(i)
    \/ \E i \in 1..Len(items) : ItemDone(i)
    \/ GatherRaises
    \/ WriteOutputs

Spec == Init /\ [][Next]_vars

(***************************************************************************)
(* Properties of round_to_ending, under SpecRound.                         *)
(***************************************************************************)
RoundCalled == call.fn = "round_to_ending" /\ ret # None

\* c cents is of the form integer + ending and does not exceed price
EndingPriceBelow(c, price, endings) ==
    /\ c >= 0
    /\ c % 100 \in Range(endings)
    /\ c * Cent <= price

\* C3: round_to_ending(price, endings) is the largest value of the form
\* integer + ending that does not exceed price (12.37 gives 11.99 and 15.02
\* gives 14.95 with endings 0.99 and 0.95), and never exceeds price.
C3_ClosestEndingBelow ==
    (RoundCalled /\ call.price >= Unit) =>
        /\ Val(ret) * Cent <= call.price
        /\ EndingPriceBelow(Val(ret), call.price, call.endings)
        /\ \A c \in 0..MaxRoundCents + 100 :
               EndingPriceBelow(c, call.price, call.endings) => c <= Val(ret)
        /\ (call.price = 1237 * Cent => Val(ret) = 1199)
        /\ (call.price = 1502 * Cent => Val(ret) = 1495)

(***************************************************************************)
(* Properties of optimise_price, under SpecOptimise.                       *)
(***************************************************************************)
OptCalled == call.fn = "optimise_price"
OptReturned == OptCalled /\ opt.pc = "returned"

\* C2: for cogs > 0 and margin_floor >= 0 the price optimise_price returns
\* is never below the margin floor cogs * (1 + margin_floor).
C2_PriceAtLeastMarginFloor ==
    (OptReturned /\ call.cogs > 0 /\ call.margin_floor >= 0 /\ ~Val(ret).raised) =>
        Val(ret).best_price >= call.cogs * (100 + call.margin_floor) * 100

\* C4: optimise_price raises ValueError exactly for the calls with cogs <= 0,
\* and then before any bound or grid is computed.
C4_RaisesIffCogsNotPositive ==
    OptCalled =>
        /\ (call.cogs <= 0) <=> (ret = Some(Raised))
        /\ (call.cogs <= 0) => opt = OptIdle
        /\ (call.cogs > 0 /\ ret # None) => ~Val(ret).raised

C4_Witness ==
    /\ OptCalled
    /\ call.cogs = 0
    /\ call.current_price = Some(1200)
    /\ call.competitor_min_price = Some(1500 * Cent)
    /\ ret = Some(Raised)

\* the bounds as the claim C5 writes them, in micro-units
C5Floor == call.cogs * (100 + call.margin_floor) * 100
C5Reference ==
    IF call.current_price # None /\ Val(call.current_price) > 0
    THEN Val(call.current_price) * Cent
    ELSE C5Floor
C5CompetitorKnown ==
    call.competitor_min_price # None /\ Val(call.competitor_min_price) # 0
C5Lower ==
    LET anchor == IF C5CompetitorKnown
                  THEN Val(call.competitor_min_price)
                  ELSE C5Reference
    IN  Max(C5Floor, (anchor * 8) \div 10)
C5Upper ==
    LET unwidened == IF C5CompetitorKnown
                     THEN (Val(call.competitor_min_price) * 12) \div 10
                     ELSE (C5Reference * 15) \div 10
    IN  IF unwidened < C5Lower THEN (C5Lower * 12) \div 10 ELSE unwidened

\* C5: the bounds are reference, lower and upper as the claim writes them
\* (upper widened to lower * 1.2 when below lower); the grid before snapping
\* is non-empty, starts at lower and lies in [lower, upper + 1e-6]; for
\* cogs = 10, margin_floor = 0.10, competitor_min_price = 15 it lies in
\* [12, 18].
C5_GridWithinBounds ==
    (OptCalled /\ opt.pc # "idle") =>
        /\ opt.reference_price = C5Reference
        /\ opt.lower_bound = C5Lower
        /\ opt.upper_bound = C5Upper
        /\ \A i \in 1..Len(opt.grid) :
               opt.grid[i] >= C5Lower /\ opt.grid[i] <= C5Upper + 1
        /\ opt.pc \in {"scan", "returned"} =>
               /\ opt.grid # <<>>
               /\ opt.grid[1] = C5Lower
               /\ (/\ call.cogs = 1000
                   /\ call.margin_floor = 10
                   /\ call.competitor_min_price = Some(1500 * Cent)) =>
                      \A i \in 1..Len(opt.grid) :
                          opt.grid[i] >= 12 * Unit /\ opt.grid[i] <= 18 * Unit

\* the widening has happened, and the guardrail example has run
C5_Witness ==
    /\ OptReturned
    /\ call.cogs = 1000
    /\ call.margin_floor = 10
    /\ call.competitor_min_price = Some(1500 * Cent)
    /\ opt.grid[1] = 12 * Unit
    /\ opt.grid[Len(opt.grid)] = 18 * Unit

C5_WitnessWidened ==
    /\ OptReturned
    /\ call.competitor_min_price = Some(900 * Cent)
    /\ call.cogs = 1000
    /\ opt.upper_bound = (opt.lower_bound * 12) \div 10
    /\ Len(opt.grid) > 1

\* profit(p) = (p - cogs) * expected_units(baseline_units, p, reference_price,
\* elasticity), for the call in progress
C6Units(price) ==
    expected_units(call.baseline_units, price, opt.reference_price, call.elasticity)
C6Profit(price) == ProfitOf(price, call.cogs * Cent, C6Units(price))

\* the distinct snapped grid prices
C6Snapped ==
    {round_to_ending(opt.grid[i], PSYCHOLOGICAL_ENDINGS) * Cent :
        i \in 1..Len(opt.grid)}

\* C6: optimise_price returns, among the distinct snapped grid prices, one
\* of maximal profit, the lowest of them on an exact tie, with the units and
\* the profit evaluated at that price.
C6_ReturnsLowestMaximiser ==
    (OptReturned /\ ~Val(ret).raised) =>
        LET best == Val(ret).best_price
        IN  /\ Range(opt.prices_to_check) = C6Snapped
            /\ \A i, j \in 1..Len(opt.prices_to_check) :
                   i < j => opt.prices_to_check[i] < opt.prices_to_check[j]
            /\ best \in C6Snapped
            /\ \A q \in C6Snapped : ~ProfitGreater(C6Profit(q), C6Profit(best))
            /\ \A q \in C6Snapped :
                   q < best => ProfitGreater(C6Profit(best), C6Profit(q))
            /\ Val(ret).best_units = C6Units(best)
            /\ Val(ret).best_profit = C6Profit(best)

\* two prices of equal, non-zero, maximal profit, and the lower one returned
C6_Witness ==
    /\ OptReturned
    /\ ~Val(ret).raised
    /\ call.baseline_units > 0
    /\ Val(ret).best_price = 7200000
    /\ 9000000 \in C6Snapped
    /\ ~ProfitGreater(C6Profit(7200000), C6Profit(9000000))
    /\ ~ProfitGreater(C6Profit(9000000), C6Profit(7200000))
    /\ ProfitSign(C6Profit(7200000)) = 1

\* the quantities at the current price, for the call in progress
C7CurrentUnits ==
    expected_units(call.baseline_units, Val(call.current_price) * Cent,
                   opt.reference_price, call.elasticity)
C7CurrentProfit ==
    ProfitOf(Val(call.current_price) * Cent, call.cogs * Cent, C7CurrentUnits)
C7NoCurrent == call.current_price = None \/ Val(call.current_price) <= 0

\* C7: optimise_price never fails on a division: both uplifts are None
\* without a positive current price, the profit uplift is None when the
\* profit at the current price is zero, the demand uplift is None when the
\* units there are zero, and otherwise each is (best - current) / current *
\* 100 at the same reference price and elasticity.
C7_UpliftsNoneOrRatio ==
    OptReturned =>
        /\ ~Val(ret).raised
        /\ C7NoCurrent =>
               /\ Val(ret).profit_uplift_pct = None
               /\ Val(ret).demand_uplift_pct = None
        /\ ~C7NoCurrent =>
               /\ Val(ret).profit_uplift_pct =
                      IF ProfitIsZero(C7CurrentProfit)
                      THEN None
                      ELSE Some([error |-> "",
                                 best |-> Val(ret).best_profit,
                                 current |-> C7CurrentProfit])
               /\ Val(ret).demand_uplift_pct =
                      IF UnitsIsZero(C7CurrentUnits)
                      THEN None
                      ELSE Some([error |-> "",
                                 best |-> Val(ret).best_units,
                                 current |-> C7CurrentUnits])

\* the current price equals cogs: no profit uplift, but a demand uplift
C7_Witness ==
    /\ OptReturned
    /\ call.current_price = Some(400)
    /\ call.cogs = 400
    /\ call.baseline_units > 0
    /\ Val(ret).profit_uplift_pct = None
    /\ Val(ret).demand_uplift_pct # None

(***************************************************************************)
(* Properties of match_candidates, under SpecMatch.                        *)
(***************************************************************************)
MatchCalled == call.fn = "match_candidates" /\ ret # None

\* C9: the list match_candidates returns is in non-increasing order of
\* match_score, and listings of equal score keep the order of the input.
C9_SortedDescendingStable ==
    MatchCalled =>
        \A i, j \in 1..Len(Val(ret)) :
            i < j =>
                /\ Val(ret)[i].match_score >= Val(ret)[j].match_score
                /\ Val(ret)[i].match_score = Val(ret)[j].match_score =>
                       Val(ret)[i].candidate.url < Val(ret)[j].candidate.url

\* the best listing came last in the input and two others tie
C9_Witness ==
    /\ MatchCalled
    /\ Len(Val(ret)) = 3
    /\ Val(ret)[1].candidate.url = 3
    /\ Val(ret)[1].match_score > Val(ret)[2].match_score
    /\ Val(ret)[2].match_score = Val(ret)[3].match_score
    /\ Val(ret)[2].candidate # [Val(ret)[3].candidate EXCEPT !.url = 2]

\* 0.6 * title + 0.2 * brand + 0.2 * size of the i-th input listing, in
\* units of 10^-5
C10Score(i) ==
    LET cand == call.candidates[i]
    IN  6 * cand.title_score
            + 2 * _brand_score(call.item.brand, cand.brand)
            + 2 * _size_score(call.item.size_in_base_units, cand.size)

\* how many times the i-th input listing appears in the output
C10Count(i) ==
    Cardinality({k \in 1..Len(Val(ret)) : Val(ret)[k].candidate = call.candidates[i]})

\* C10: match_candidates retains exactly the input listings whose combined
\* score is at least 0.3 (0.3 retained, 0.2999 discarded), each once, adds
\* none and raises nothing; every match_score of the output is in [0.3, 1].
C10_RetainsExactlyAboveThreshold ==
    MatchCalled =>
        /\ \A i \in 1..Len(call.candidates) :
               C10Count(i) = IF C10Score(i) >= 30000 THEN 1 ELSE 0
        /\ \A k \in 1..Len(Val(ret)) :
               /\ \E i \in 1..Len(call.candidates) :
                      /\ Val(ret)[k].candidate = call.candidates[i]
                      /\ Val(ret)[k].match_score = C10Score(i)
               /\ Val(ret)[k].match_score >= 30000
               /\ Val(ret)[k].match_score <= 100000

\* a listing scoring exactly 0.3 is kept and one scoring 0.2999 is dropped
C10_Witness ==
    /\ MatchCalled
    /\ Len(call.candidates) = 2
    /\ C10Score(1) = 29990
    /\ C10Score(2) = 30000
    /\ Len(Val(ret)) = 1
    /\ Val(ret)[1].candidate.url = 2

(***************************************************************************)
(* Properties of the run of the CLI, under Spec.                           *)
(***************************************************************************)
\* C1: an item whose cogs is missing or not positive fails alone: the run
\* completes and writes a recommendation for every other item.
C1_BadItemFailsAlone ==
    run # "running" =>
        /\ run = "finished"
        /\ written # None
        /\ \A i \in 1..Len(items) :
               Truthy(items[i].cogs) /\ Val(items[i].cogs) > 0 =>
                   \E k \in 1..Len(Val(written)) : Val(written)[k].item_id = i

\* the item of the end-to-end example: cogs 10, current price 20, category
\* "default"
C8Item(i) ==
    /\ items[i].cogs = Some(1000)
    /\ items[i].current_price = Some(2000)
    /\ items[i].category = Some(<<"d", "e", "f", "a", "u", "l", "t">>)

\* one matched listing, of effective price 18
C8Matched(matched_list) ==
    /\ Len(matched_list) = 1
    /\ matched_list[1].effective_price = Some(18 * Unit)

\* the profit and the units at price 20, cogs 10, elasticity -1.2
C8CurrentUnits == [b |-> 100, p |-> 20 * Unit, r |-> 20 * Unit, e |-> -12]
C8CurrentProfit == [m |-> 10 * Unit, u |-> C8CurrentUnits, inf |-> FALSE]

\* C8: for an item with cogs 10, current price 20 and category "default"
\* and one matched listing of effective price 18, the optimiser is called
\* with competitor_min_price 18 and elasticity -1.2, and the recommendation
\* has a price in [14.4, 21.6], units, profit and both uplifts, the uplifts
\* relative to price 20.
C8_EndToEnd ==
    /\ \A i \in 1..Len(items) :
           (C8Item(i) /\ call # NoCall /\ call.by = i /\ C8Matched(matched)) =>
               /\ call.competitor_min_price = Some(18 * Unit)
               /\ call.elasticity = -12
               /\ call.cogs = 1000
               /\ call.current_price = Some(2000)
               /\ ret # None => ~Val(ret).raised
    /\ \A k \in 1..Len(results) :
           LET rec == results[k]
           IN  (C8Item(rec.item_id) /\ C8Matched(rec.competitor_summary)) =>
                   /\ rec.recommended_price # None
                   /\ Val(rec.recommended_price) >= 14400000
                   /\ Val(rec.recommended_price) <= 21600000
                   /\ rec.expected_units # None
                   /\ rec.expected_profit # None
                   /\ rec.profit_uplift_vs_current_pct # None
                   /\ rec.demand_lift_vs_current_pct # None
                   /\ Val(rec.profit_uplift_vs_current_pct).current = C8CurrentProfit
                   /\ Val(rec.demand_lift_vs_current_pct).current = C8CurrentUnits

\* the example has run to its end
C8_Witness ==
    /\ run = "finished"
    /\ Len(items) = 1
    /\ C8Item(1)
    /\ Len(Val(written)) = 1
    /\ C8Matched(Val(written)[1].competitor_summary)
    /\ Val(written)[1].recommended_price = Some(21400000)

(***************************************************************************)
(* Properties of parse_size, build_fingerprint and normalise_items, under  *)
(* SpecIngest.                                                             *)
(***************************************************************************)
ParseSizeCalled == call.fn = "parse_size" /\ ret # None

\* quantities and what they are worth, units and their factors in hundredths
C11Quantities ==
    {[text |-> <<"5", "0", "0">>, mantissa |-> 500, scale |-> 1],
     [text |-> <<"1", ".", "5">>, mantissa |-> 15, scale |-> 10],
     [text |-> <<"8">>, mantissa |-> 8, scale |-> 1],
     [text |-> <<"2">>, mantissa |-> 2, scale |-> 1],
     [text |-> <<"1">>, mantissa |-> 1, scale |-> 1],
     [text |-> <<".", "5">>, mantissa |-> 5, scale |-> 10]}
C11Units ==
    {[text |-> <<"g">>, factor |-> 100],
     [text |-> <<"k", "g">>, factor |-> 100000],
     [text |-> <<"K", "G">>, factor |-> 100000],
     [text |-> <<"m", "l">>, factor |-> 100],
     [text |-> <<"l">>, factor |-> 100000],
     [text |-> <<"o", "z">>, factor |-> 2835],
     [text |-> <<"O", "Z">>, factor |-> 2835],
     [text |-> <<"f", "l", " ", "o", "z">>, factor |-> 2835],
     [text |-> <<"l", "b">>, factor |-> 45359],
     [text |-> <<"L", "b">>, factor |-> 45359]}

\* C11: parse_size turns a quantity followed by a unit into base units with
\* the factors g 1, kg 1000, ml 1, l 1000, oz and fl oz 28.35, lb 453.59,
\* whatever the case and with or without a space ("2 lb" is 907.18), and
\* "n/a" into None.
C11_ConvertsToBaseUnits ==
    ParseSizeCalled =>
        /\ \A q \in C11Quantities, w \in SizeSpaces, u \in C11Units :
               call.size_str = q.text \o w \o u.text =>
                   Val(ret) = Returned(Some((q.mantissa * u.factor * 10) \div q.scale))
        /\ call.size_str = <<"2", " ", "l", "b">> => Val(ret) = Returned(Some(907180))
        /\ call.size_str = <<"n", "/", "a">> => Val(ret) = Returned(None)

\* the size strings that hold no quantity with a unit, or a run of digits
\* and dots that is no number
C12Unparseable ==
    {q \o w \o u : q \in SizeQuantities, w \in SizeSpaces, u \in {<<>>, <<"x">>}}
        \cup {q \o w \o u : q \in {<<>>, <<"1", ".", "2", ".", "3">>, <<".">>}, w \in SizeSpaces,
                            u \in SizeUnitWords}
        \cup {<<"n", "/", "a">>}

\* C12: parse_size and normalise_items never raise; an absent or empty size
\* string, one with no quantity and unit, and one whose digits and dots are
\* no number all give a size_in_base_units of None.
C12_UnparseableSizeIsNone ==
    /\ ParseSizeCalled =>
           /\ ~Val(ret).raised
           /\ call.size_str \in C12Unparseable => Val(ret).value = None
    /\ (call.fn = "normalise_items" /\ ret # None) =>
           /\ ~Val(ret).raised
           /\ \A i \in 1..Len(call.raw_items) :
                  call.raw_items[i].size \in {None, Some(<<>>), Some(SizeBadNumber)} =>
                      Val(ret).value[i].size_in_base_units = None

(***************************************************************************)
(* Properties of compute_competitor_features, under SpecFeatures.          *)
(***************************************************************************)
FeaturesCalled == call.fn = "compute_competitor_features" /\ ret # None

\* the effective prices that are not None, a price of 0 among them
C13NonNull(candidates) ==
    {i \in 1..Len(candidates) : candidates[i].effective_price # None}
C13Values(candidates) ==
    {Val(candidates[i].effective_price) : i \in C13NonNull(candidates)}

\* C13: the statistics are taken over exactly the matched listings whose
\* effective price is not None, one at 0 included: num_competitors counts
\* them, min and max are their least and greatest price, the median lies
\* between, spread is max - min, and competitor_index and undercut_pct
\* are min/current and (current - min)/current when current_price is
\* present and positive and None otherwise.
C13_StatisticsOverPricedListings ==
    (FeaturesCalled /\ C13NonNull(call.candidates) # {}) =>
        LET f == Val(ret)
            values == C13Values(call.candidates)
            least == CHOOSE x \in values : \A y \in values : x <= y
            greatest == CHOOSE x \in values : \A y \in values : x >= y
            current == call.current_price
            positive == current # None /\ Val(current) > 0
        IN  /\ f.num_competitors = Cardinality(C13NonNull(call.candidates))
            /\ f.min_competitor = Some(least)
            /\ f.max_competitor = Some(greatest)
            /\ f.median_competitor # None
            /\ least <= Val(f.median_competitor)
            /\ Val(f.median_competitor) <= greatest
            /\ f.spread = Some(greatest - least)
            /\ Val(f.spread) >= 0
            /\ (f.competitor_index # None) <=> positive
            /\ (f.undercut_pct # None) <=> positive
            /\ positive =>
                   /\ f.competitor_index =
                          Some([num |-> least, den |-> Val(current) * Cent])
                   /\ f.undercut_pct =
                          Some([num |-> Val(current) * Cent - least,
                                den |-> Val(current) * Cent])

\* C14: when no matched listing has a price, the list being empty or every
\* effective price None, every statistic is None and num_competitors is 0,
\* whatever current_price is.
C14_NoPricedListingGivesNone ==
    (FeaturesCalled /\ C13NonNull(call.candidates) = {}) =>
        Val(ret) = [min_competitor |-> None,
                    median_competitor |-> None,
                    max_competitor |-> None,
                    spread |-> None,
                    num_competitors |-> 0,
                    competitor_index |-> None,
                    undercut_pct |-> None]

\* unpriced listings only, with a current price that is present and positive
C14_Witness ==
    /\ FeaturesCalled
    /\ Len(call.candidates) = 2
    /\ C13NonNull(call.candidates) = {}
    /\ call.current_price = Some(2000)
    /\ Val(ret).num_competitors = 0

(***************************************************************************)
(* Properties of the brand and size components, under SpecMatch.           *)
(***************************************************************************)
SizeScoreCalled == call.fn = "_size_score" /\ ret # None
BrandScoreCalled == call.fn = "_brand_score" /\ ret # None

\* the first number written in a listing's size string, in thousandths, or
\* None when it holds no digit
C15FirstNumber ==
    <<"5", "0", "0", "g">> :> Some(500000) @@
    <<"4", "5", "0", " ", "g">> :> Some(450000) @@
    <<"4", "4", "9", "g">> :> Some(449000) @@
    <<"5", "5", "0", "g">> :> Some(550000) @@
    <<"5", "5", "1", "g">> :> Some(551000) @@
    <<"1", " ", "k", "g">> :> Some(1000) @@
    <<"1", ".", "5">> :> Some(1500) @@
    <<"0", ".", "4", "5">> :> Some(450) @@
    <<"2", " ", "x", " ", "5", "0", "0", "g">> :> Some(2000) @@
    <<"4", "9", "9", ".", "9">> :> Some(499900) @@
    <<".", "5", " ", "k", "g">> :> Some(5000) @@
    <<"o", "n", "e">> :> None

\* C15: the size component is 0.5 when the item's size is unknown or the
\* listing has no size string; otherwise 1.0 when the first number of the
\* listing's size string divided by the item's size lies in [0.9, 1.1],
\* ends included, and 0.0 when it does not, when there is no number, and
\* when the item's size is 0, where the ratio does not exist.
C15_SizeComponent ==
    SizeScoreCalled =>
        LET size == call.size_item
            text == call.size_candidate
            number == C15FirstNumber[Val(text)]
        IN  IF size = None \/ text = None \/ text = Some(<<>>)
            THEN Val(ret) = 5000
            ELSE IF number = None \/ Val(size) = 0
            THEN Val(ret) = 0
            ELSE IF 9 * Val(size) <= 10 * Val(number) /\ 10 * Val(number) <= 11 * Val(size)
            THEN Val(ret) = 10000
            ELSE Val(ret) = 0

\* "450 g" against 500 is at the lower end of the interval, and a size of 0
\* gives 0.0
C15_Witness ==
    /\ SizeScoreCalled
    /\ call.size_item = Some(500000)
    /\ call.size_candidate = Some(<<"4", "5", "0", " ", "g">>)
    /\ Val(ret) = 10000

C16Absent(brand) == brand = None \/ brand = Some(<<>>)

\* a listing of a match_candidates call scored with an absent brand on either
\* side is kept exactly when 0.6 * title + 0.2 * size + 0.1 reaches 0.3
C16AbsentIsNeutral ==
    MatchCalled =>
        \A i \in 1..Len(call.candidates) :
            LET cand == call.candidates[i]
                score == 6 * cand.title_score + 2 * 5000
                             + 2 * _size_score(call.item.size_in_base_units, cand.size)
            IN  (C16Absent(call.item.brand) \/ C16Absent(cand.brand)) =>
                    (score >= 30000 <=>
                        \E k \in 1..Len(Val(ret)) : Val(ret)[k].candidate = cand)

\* C16 as stated: the brand component is 1.0 when both brands are present
\* and equal ignoring case, 0.0 when both are present and differ, and 0.5
\* when either is absent; an absent brand does not disqualify a listing.
C16_BrandEqualIgnoringCase ==
    /\ BrandScoreCalled =>
           Val(ret) = IF C16Absent(call.item_brand) \/ C16Absent(call.candidate_brand)
                      THEN 5000
                      ELSE IF lower(Val(call.item_brand)) = lower(Val(call.candidate_brand))
                      THEN 10000
                      ELSE 0
    /\ C16AbsentIsNeutral

\* a brand without its case and without the spaces around it
C16Canonical ==
    Acme :> AcmeLower @@ AcmePadded :> AcmeLower @@ AcmeLower :> AcmeLower @@ Other :> <<"o", "t", "h", "e", "r">>

\* C16, amended: the brand component is 1.0 when both brands are present
\* and equal ignoring case and the whitespace around them, 0.0 when both
\* are present and differ otherwise, and 0.5 when either is absent or
\* empty; an absent brand does not disqualify a listing.
C16_BrandEqualIgnoringCaseAndPadding ==
    /\ BrandScoreCalled =>
           Val(ret) = IF C16Absent(call.item_brand) \/ C16Absent(call.candidate_brand)
                      THEN 5000
                      ELSE IF C16Canonical[Val(call.item_brand)]
                                = C16Canonical[Val(call.candidate_brand)]
                      THEN 10000
                      ELSE 0
    /\ C16AbsentIsNeutral

\* " ACME " and "Acme" agree
C16_Witness ==
    /\ BrandScoreCalled
    /\ call.item_brand = Some(AcmePadded)
    /\ call.candidate_brand = Some(Acme)
    /\ Val(ret) = 10000

(***************************************************************************)
(* Properties of expected_units and get_elasticity, under SpecDemand.      *)
(***************************************************************************)
ExpectedUnitsCalled == call.fn = "expected_units" /\ ret # None

\* u < v for two values of expected_units of one non-negative baseline and
\* one elasticity s * n / d: b * (p1/r1)^(s n/d) < b * (p2/r2)^(s n/d) iff
\* (p1 * r2)^(s n) < (p2 * r1)^(s n)
C17Less(u, v) ==
    IF v.b = 0 THEN FALSE
    ELSE IF u.b = 0 THEN TRUE
    ELSE LET h == GCD(Abs(u.e), 10)
             n == Abs(u.e) \div h
             left == BigMulPow(BigMulPow(BigOne, u.p \div Cent, n), v.r \div Cent, n)
             right == BigMulPow(BigMulPow(BigOne, v.p \div Cent, n), u.r \div Cent, n)
         IN  IF u.e < 0 THEN BigLess(right, left) ELSE BigLess(left, right)

\* C17: expected_units is 0.0 when the price or the reference price is not
\* positive; for a negative elasticity, a positive baseline and a positive
\* reference price it is strictly decreasing in the price over the positive
\* prices and equals the baseline at the reference price.
C17_ZeroOrDecreasing ==
    ExpectedUnitsCalled =>
        LET units(price) == expected_units(call.baseline_units, price,
                                           call.reference_price, call.elasticity)
            baseline == [b |-> call.baseline_units, p |-> Cent, r |-> Cent,
                         e |-> call.elasticity]
        IN  /\ (call.price <= 0 \/ call.reference_price <= 0) => Val(ret).b = 0
            /\ (call.elasticity < 0 /\ call.baseline_units > 0
                    /\ call.reference_price > 0 /\ call.price > 0) =>
                   /\ \A higher \in DemandPrices :
                          higher > call.price => C17Less(units(higher), Val(ret))
                   /\ \A lower_price \in DemandPrices :
                          (0 < lower_price /\ lower_price < call.price) =>
                              C17Less(Val(ret), units(lower_price))
                   /\ call.price = call.reference_price =>
                          /\ ~C17Less(Val(ret), baseline)
                          /\ ~C17Less(baseline, Val(ret))
                   /\ call.price < call.reference_price => C17Less(baseline, Val(ret))
                   /\ call.price > call.reference_price => C17Less(Val(ret), baseline)

\* a call one cent under the reference price, with more than the baseline
C17_Witness ==
    /\ ExpectedUnitsCalled
    /\ call.elasticity = -12
    /\ call.baseline_units = 100
    /\ call.reference_price = 1000 * Cent
    /\ call.price = 999 * Cent
    /\ Val(ret).b = 100

GetElasticityCalled == call.fn = "get_elasticity" /\ ret # None

\* the key of the table that the category equals ignoring case, if any
C20Keys(category) ==
    {key \in {<<"d", "e", "f", "a", "u", "l", "t">>, <<"c", "l", "o", "t", "h", "i", "n", "g">>, <<"h", "o", "m", "e">>, <<"a", "c", "c", "e", "s", "s", "o", "r", "i", "e", "s">>} :
         category # None /\ upper(Val(category)) = upper(key)}

\* C20: get_elasticity returns the entry of the table whose key equals the
\* category ignoring case (default -1.2, clothing -1.5, home -1.1,
\* accessories -1.3), the default -1.2 when the category is absent or in no
\* key, and a negative number in every case.
C20_TableLookupIgnoringCase ==
    GetElasticityCalled =>
        LET keys == C20Keys(call.item.category)
            table == <<"d", "e", "f", "a", "u", "l", "t">> :> -12 @@ <<"c", "l", "o", "t", "h", "i", "n", "g">> :> -15
                         @@ <<"h", "o", "m", "e">> :> -11 @@ <<"a", "c", "c", "e", "s", "s", "o", "r", "i", "e", "s">> :> -13
        IN  /\ Val(ret) = IF keys = {} THEN -12 ELSE table[CHOOSE key \in keys : TRUE]
            /\ Val(ret) < 0

\* "Clothing" finds the entry of "clothing"
C20_Witness ==
    /\ GetElasticityCalled
    /\ call.item.category = Some(ClothingMixed)
    /\ Val(ret) = -15

(***************************************************************************)
(* Properties of build_fingerprint, under SpecIngest.                      *)
(***************************************************************************)
FingerprintCalled == call.fn = "build_fingerprint" /\ ret # None

\* the fields of the rows, trimmed and in lower case
C18Canonical ==
    AcmePadded :> <<"a", "c", "m", "e">> @@ TeaPadded :> <<"g", "r", "e", "e", "n", " ", "t", "e", "a">> @@ Size500g :> Size500g
        @@ SizeBadNumber :> SizeBadNumber @@ Size2LbPadded :> <<"2", " ", "l", "b">>
C18Decimal == 0 :> <<"0">> @@ 12 :> <<"1", "2">>

\* the fingerprint the fields of an item give: each part that is present,
\* in the order brand, name, size, pack count, with "|" between two parts
C18Expected(item) ==
    LET brand == IF item.brand \in {None, Some(<<>>)} THEN <<>>
                 ELSE C18Canonical[Val(item.brand)] \o <<"|">>
        size == IF item.size \in {None, Some(<<>>)} THEN <<>>
                ELSE <<"|">> \o C18Canonical[Val(item.size)]
        pack == IF item.pack_count = None THEN <<>>
                ELSE <<"|">> \o C18Decimal[Val(item.pack_count)]
    IN  brand \o C18Canonical[item.item_name] \o size \o pack

\* C18: the fingerprint of an item is a function of its fields: the trimmed,
\* lower-cased brand, name and size and the pack count in decimal, in that
\* order and joined by "|"; the name is always there and each other field
\* is left out only when it is absent.
C18_FingerprintJoinsPresentFields ==
    FingerprintCalled => Val(ret) = C18Expected(call.item)

(***************************************************************************)
(* The recommendations of a run whose items all succeed, under Spec.       *)
(***************************************************************************)
\* the urls of the listings of a competitor summary, in its order
C19Urls(summary) == [k \in 1..Len(summary) |-> summary[k].candidate.url]

\* the price recommended for an item of the given cogs (cents), by the urls
\* of the listings matched to it: none; one at 18.00; one without a price
\* after one at 16.50
C19Price ==
    <<1000, <<>>>> :> 30000000 @@ <<1000, <<1>>>> :> 21400000
        @@ <<1000, <<2, 1>>>> :> 19700000
        @@ <<400, <<>>>> :> 6400000 @@ <<400, <<1>>>> :> 21400000
        @@ <<400, <<2, 1>>>> :> 19700000

\* what the recommendation of an item holds, given the item and the
\* listings matched to it alone
C19Content(item, rec) ==
    LET price == C19Price[<<Val(item.cogs), C19Urls(rec.competitor_summary)>>]
        reference == IF item.current_price # None
                     THEN Val(item.current_price) * Cent
                     ELSE 440 * Cent
        units == [b |-> 100, p |-> price, r |-> reference, e |-> -12]
    IN  /\ rec.current_price = item.current_price
        /\ rec.recommended_price = Some(price)
        /\ rec.expected_units = Some(units)
        /\ rec.expected_profit =
               Some([m |-> price - Val(item.cogs) * Cent, u |-> units, inf |-> FALSE])
        /\ (rec.profit_uplift_vs_current_pct # None) <=> (item.current_price # None)
        /\ (rec.demand_lift_vs_current_pct # None) <=> (item.current_price # None)

\* C19: whatever the order in which the searches of the items return, a run
\* in which no item fails ends with one recommendation for each item of the
\* catalogue and no other, and what an item's recommendation holds follows
\* from the item and the listings found for it alone.
C19_OneRecommendationPerItem ==
    run = "finished" =>
        /\ Len(results) = Len(items)
        /\ \A i \in 1..Len(items) :
               \E k \in 1..Len(results) :
                   /\ results[k].item_id = i
                   /\ \A j \in 1..Len(results) : results[j].item_id = i => j = k
                   /\ C19Content(items[i], results[k])

\* two items, the second one's search returned first and the two found
\* different listings
C19_Witness ==
    /\ run = "finished"
    /\ Len(items) = 2
    /\ results[1].item_id = 2
    /\ results[2].item_id = 1
    /\ C19Urls(results[1].competitor_summary) = <<2, 1>>
    /\ C19Urls(results[2].competitor_summary) = <<>>
    /\ items[1].cogs # items[2].cogs

(***************************************************************************)
(* The sign of the profit uplift, under SpecOptimise.                      *)
(***************************************************************************)
\* C25: a profit uplift that is not None is positive exactly when the
\* profit at the recommended price exceeds the profit at the current price
\* and negative exactly when it is lower, a current price under cogs
\* (a negative current profit) included.
C25_UpliftSignFollowsProfit ==
    (OptReturned /\ ~Val(ret).raised /\ Val(ret).profit_uplift_pct # None) =>
        LET sign == ProfitUpliftSign(Val(Val(ret).profit_uplift_pct))
        IN  /\ sign > 0 <=> ProfitGreater(Val(ret).best_profit, C7CurrentProfit)
            /\ sign < 0 <=> ProfitGreater(C7CurrentProfit, Val(ret).best_profit)

(***************************************************************************)
(* Termination of optimise_price, under SpecAnyStep.                       *)
(***************************************************************************)
\* C23: every call of optimise_price with cogs > 0 returns, whatever its
\* margin_floor, price_step, baseline_units and optional prices: the loop
\* that builds the grid ends.
C23_OptimiseReturns ==
    (OptCalled /\ call.cogs > 0) ~> OptReturned

(***************************************************************************)
(* The semaphore of ScraperManager, under SpecManager                      *)
(***************************************************************************)
\* C21: at every moment the searches in progress through one ScraperManager,
\* over all items, number at most the configured concurrency, and every
\* search that queued for a permit eventually starts.
C21_BoundedAndQueuedSearchStarts ==
    /\ [](InProgress <= manager.concurrency)
    /\ \A t \in ManagerTasks :
           (t \in DOMAIN search /\ search[t].st = "waiting")
               ~> (t \in DOMAIN search /\ search[t].st = "searching")

\* C21, amended: the same for a manager made with a concurrency of at least 1.
C21_BoundedAndQueuedSearchStartsGivenPermits ==
    /\ [](InProgress <= manager.concurrency)
    /\ \A t \in ManagerTasks :
           (t \in DOMAIN search /\ search[t].st = "waiting" /\ manager.concurrency >= 1)
               ~> (t \in DOMAIN search /\ search[t].st = "searching")

\* a search that had to queue has started, every permit is taken and another
\* search is still queued
C21_Witness ==
    /\ manager.concurrency >= 1
    /\ InProgress = manager.concurrency
    /\ \E t \in DOMAIN search : search[t].st = "searching" /\ search[t].queued
    /\ \E t \in DOMAIN search : search[t].st = "waiting"

(***************************************************************************)
(* What search_all returns when stores fail, under SpecManager             *)
(***************************************************************************)
\* the listings of the first n scrapers of item i whose search returned
RECURSIVE C24Listings(_, _)
C24Listings(i, n) ==
    IF n = 0 THEN <<>>
    ELSE C24Listings(i, n - 1)
             \o (IF search[<<i, n>>].st = "returned" THEN search[<<i, n>>].listings ELSE <<>>)

\* C24: search_all does not raise when searches of some scrapers raised, and
\* it returns the listings of every scraper whose search returned, joined in
\* the order of the scrapers.
C24_FailingStoresLoseNoListings ==
    \A i \in DOMAIN found :
        found[i] # None =>
            /\ ~Val(found[i]).raised
            /\ Val(found[i]).candidates = C24Listings(i, manager.scrapers)

\* search_all has returned for an item whose second scraper raised while the
\* first and the third returned listings
C24_Witness ==
    /\ manager.scrapers = 3
    /\ found[1] # None
    /\ search[<<1, 2>>].st = "raised"
    /\ search[<<1, 1>>].st = "returned" /\ Len(search[<<1, 1>>].listings) = 2
    /\ search[<<1, 3>>].st = "returned" /\ Len(search[<<1, 3>>].listings) = 1

(***************************************************************************)
(* The limit RateLimiter enforces, under SpecLimiter                       *)
(***************************************************************************)
\* C22: the token count never exceeds burst; the acquisitions completed in
\* any window of length T number at most burst + rate * T; and with burst 1
\* two successive acquisitions complete at least 1 / rate seconds apart.
C22_RateLimitEnforced ==
    LET done == acquiring.completed
    IN  /\ limiter.tokens <= limiter.burst * Whole
        /\ \A i, j \in 1..Len(done) :
               i <= j => (j - i + 1) * Whole
                             <= limiter.burst * Whole + limiter.rate * (done[j] - done[i])
        /\ limiter.burst = 1 =>
               \A i \in 1..(Len(done) - 1) : limiter.rate * (done[i + 1] - done[i]) >= Whole

=============================================================================
